---- MODULE Spec2Model ----
(***************************************************************************)
(* Content & palette extraction engine of ai-lp01.                         *)
(*                                                                         *)
(*   - WebScraper.extractLogos / extractImages   (lib/services/scraper.ts) *)
(*   - GeminiService palette assembly, target 20 ("Policy B")              *)
(*   - ColorExtractor.complementTo16Colors, target 16 ("Policy A")         *)
(*   - ColorExtractor.extractColors, WebScraper.scrapeUrl,                 *)
(*     WebScraper.extractKeywordsFast and the multi-URL scrape handler     *)
(*                                                                         *)
(* Strings the code only tests with regular expressions are drawn from a   *)
(* small vocabulary; each regular expression is the set of vocabulary      *)
(* words it matches.  Colour strings are sequences of characters, so that  *)
(* toUpperCase, the hex parser and the hex formatter are computed.         *)
(***************************************************************************)
EXTENDS Integers, Sequences, FiniteSets, TLC

VARIABLES
    pc,            \* "start" before the call, "done" once it has returned
    baseUrl,       \* extractImages: URL of the scraped page
    ogImage,       \* extractImages: content of <meta property="og:image">
    doc,           \* extractImages: the <img> elements in document order
    images,        \* extractImages: the returned list
    logoResult,    \* extractImages: what its extractLogos call returned
    extractedColors, \* palette assembly: input.extractedColors
    parsedColors,  \* palette assembly: parsed.colors (AI colours)
    builder,       \* palette assembly: the builder that ran
    cssStage,      \* palette assembly: the palette before any AI colour
    iterations,    \* palette assembly: executions of the variation loop body
    colorPalette,  \* palette assembly: the returned palette
    harvested,     \* complementTo16Colors: the extractedColors argument
    palette16,     \* complementTo16Colors: the returned palette
    styleColors,   \* extractColors: the colour sources of the document
    basePalette,   \* extractColors: the returned palette
    normalized,    \* normalizeColor: the successive return values
    targetUrl,     \* scrapeUrl: the url argument
    attempts,      \* scrapeUrl: the number of axios.get calls made
    requests,      \* scrapeUrl: the HTTP requests sent, redirects included
    outcome,       \* scrapeUrl: <<>>, <<"returned">> or the error thrown
    contacted,     \* scrapeUrl: the hostnames the requests were sent to
    calls,         \* extraction calls in progress on the shared instances
    content,       \* extractKeywordsFast: the content argument
    keywords,      \* extractKeywordsFast: the returned list
    urls,          \* scrape handler: the requested URLs
    urlIndex,      \* scrape handler: position of the loop over urls
    allImages,     \* scrape handler: the images collected so far
    allCssColors,  \* scrape handler: the colours collected so far
    allAnalysisInputs, \* scrape handler: one analysis input per scraped page
    primaryContext, \* scrape handler: the context kept for the response
    urlResults,    \* scrape handler: counts per URL
    response       \* scrape handler: the JSON body returned

Range(s) == {s[i] : i \in DOMAIN s}

Min(a, b) == IF a < b THEN a ELSE b

Max(a, b) == IF a > b THEN a ELSE b

(***************************************************************************)
(* URL strings.  A URL string is [form, origin, path]:                     *)
(*   "abs"   origin/seg/seg   (a serialised absolute href)                 *)
(*   "root"  /seg/seg         "rel"  seg/seg                                *)
(*   "data"  a data: URI      "none" attribute absent or empty / null      *)
(* Two records are equal exactly when the strings are.                     *)
(***************************************************************************)
Url(form, origin, path) == [form |-> form, origin |-> origin, path |-> path]

NoUrl == Url("none", "", <<>>)

DataUri == Url("data", "data:image/png;base64", <<>>)

UrlWords(u) == {u.origin} \cup Range(u.path)

\* String.prototype.toLowerCase over the vocabulary
toLowerCase(w) ==
    CASE w = "No image found" -> "no image found"
      [] w = "Company Logo"   -> "company logo"
      [] w = "Summer sale banner" -> "summer sale banner"
      [] w = "Shoe"           -> "shoe"
      [] w = "Logo"           -> "logo"
      [] OTHER -> w

\* String.prototype.length over the alt vocabulary
StrLen(w) ==
    CASE w = "" -> 0
      [] w = "Shoe" -> 4
      [] w = "Logo" -> 4
      [] w = "Company Logo" -> 12
      [] w = "No image found" -> 14
      [] w = "Summer sale banner" -> 18

\* the words of the vocabulary matched by the placeholder-URL expression
PlaceholderUrlWords == {"placeholder.png", "coming-soon", "1x1.gif"}

\* the words matched by /\.(jpg|jpeg|png|webp|gif|svg)/i, or containing 'image'
ImageUrlWords == {"hero.jpg", "logo.png", "banner.png", "placeholder.png",
                  "1x1.gif", "data:image/png;base64", "photo.jpg"}

\* the lower-cased alts matched by the placeholder-alt expression
PlaceholderAltWords == {"no image found"}

\* the lower-cased class names matched by the placeholder-class expression
PlaceholderClassWords == {"skeleton"}

\* the words matched by one of LOGO_PATTERNS (each is case-insensitive)
LogoPatternWords == {"logo.png", "logo", "company logo", "site-logo"}

\* the class / alt values containing "logo" (attribute selectors)
LogoAttrWords == {"site-logo", "logo", "company logo"}

MAX_IMAGES == 30

LOGO_SCAN == 10

LOGO_LIMIT == 3

IMG_SCAN == 50

isPlaceholderImage(u) == UrlWords(u) \cap PlaceholderUrlWords # {}

isValidImageUrl(u) ==
    LET lowerUrl == Url(u.form, toLowerCase(u.origin),
                        [i \in DOMAIN u.path |-> toLowerCase(u.path[i])])
        hasValidExtension == UrlWords(lowerUrl) \cap ImageUrlWords # {}
    IN  IF ~hasValidExtension THEN FALSE ELSE ~isPlaceholderImage(lowerUrl)

isPlaceholderAlt(alt) ==
    IF alt = "" THEN FALSE ELSE toLowerCase(alt) \in PlaceholderAltWords

isPlaceholderClass(className) ==
    IF className = "" THEN FALSE
    ELSE toLowerCase(className) \in PlaceholderClassWords

\* new URL(url, baseUrl).href; null for a data: URI
makeAbsoluteUrl(u, base) ==
    CASE u.form = "data" -> NoUrl
      [] u.form = "abs"  -> u
      [] u.form = "root" -> Url("abs", base.origin, u.path)
      [] u.form = "rel"  ->
            Url("abs", base.origin,
                SubSeq(base.path, 1, Len(base.path) - 1) \o u.path)
      [] OTHER -> NoUrl

(***************************************************************************)
(* <img> elements.  container is the nearest enclosing landmark: "body",   *)
(* "header", "nav" or ".logo"; width and height are the parsed attributes, *)
(* 0 when absent.                                                          *)
(***************************************************************************)
Img(src, dataSrc, alt, class, container, width, height, parentClass) ==
    [src |-> src, dataSrc |-> dataSrc, dataLazySrc |-> NoUrl, href |-> NoUrl,
     alt |-> alt, class |-> class, id |-> "", container |-> container,
     width |-> width, height |-> height, parentClass |-> parentClass]

\* a || b on attribute values
OrElse(a, b) == IF a # NoUrl THEN a ELSE b

\* the element is selected by one of LOGO_SELECTORS
matchesLogoSelector(e) ==
    \/ e.container \in {"header", ".logo"}
    \/ e.class \in LogoAttrWords
    \/ toLowerCase(e.alt) \in LogoAttrWords

\* an isLogoElement that takes an absent dimension for a small one
isLogoElementAbsentIsSmall(e, src, alt) ==
    LET srcLower == {toLowerCase(w) : w \in UrlWords(src)}
        altLower == toLowerCase(alt)
        isInHeader == e.container \in {"header", "nav"}
    IN  IF srcLower \cap LogoPatternWords # {} \/ altLower \in LogoPatternWords
        THEN TRUE
        ELSE IF e.class \in LogoPatternWords \/ e.id \in LogoPatternWords
        THEN TRUE
        ELSE IF isInHeader /\ (e.width <= 300 \/ e.height <= 150)
        THEN TRUE
        ELSE FALSE

isLogoElement(e, src, alt) ==
    LET srcLower == {toLowerCase(w) : w \in UrlWords(src)}
        altLower == toLowerCase(alt)
        isInHeader == e.container \in {"header", "nav"}
    IN  IF srcLower \cap LogoPatternWords # {} \/ altLower \in LogoPatternWords
        THEN TRUE
        ELSE IF e.class \in LogoPatternWords \/ e.id \in LogoPatternWords
        THEN TRUE
        ELSE IF isInHeader /\ (   (e.width > 0 /\ e.width <= 300)
                               \/ (e.height > 0 /\ e.height <= 150))
        THEN TRUE
        ELSE FALSE

\* a score that is returned without the Math.min
calculateImageScoreFastNoClamp(e, alt) ==
    LET s0 == 500
        s1 == IF e.parentClass \in {"hero", "banner", "main", "feature"}
              THEN s0 + 300 ELSE s0
        s2 == IF e.width > 400 \/ e.height > 400 THEN s1 + 200 ELSE s1
        s3 == IF alt # "" /\ StrLen(alt) > 5
              THEN (IF s2 = 700 THEN 799 ELSE s2 + 100) ELSE s2
    IN  s3

\* scores are in thousandths; 700 + 100 is 799 because the double sum
\* 0.5 + 0.2 + 0.1 is 0.7999999999999999
calculateImageScoreFast(e, alt) ==
    LET s0 == 500
        s1 == IF e.parentClass \in {"hero", "banner", "main", "feature"}
              THEN s0 + 300 ELSE s0
        s2 == IF e.width > 400 \/ e.height > 400 THEN s1 + 200 ELSE s1
        s3 == IF alt # "" /\ StrLen(alt) > 5
              THEN (IF s2 = 700 THEN 799 ELSE s2 + 100) ELSE s2
    IN  Min(s3, 1000)

ScrapedImage(url, score, e, alt, id, isLogo) ==
    [url |-> url, score |-> score, width |-> e.width, height |-> e.height,
     alt |-> alt, source |-> "auto", id |-> id, isLogo |-> isLogo]

\* a pre-pass that names its entries like the general pass does
LogoStepAutoId(st, e, base) ==
    LET src == OrElse(e.src, OrElse(e.dataSrc, e.href))
        alt == IF e.alt # "" THEN e.alt ELSE "Logo"
        absoluteUrl == makeAbsoluteUrl(src, base)
    IN  IF src # NoUrl /\ src \notin st.seen
           /\ absoluteUrl # NoUrl /\ isValidImageUrl(absoluteUrl)
        THEN [logos |-> Append(st.logos,
                         ScrapedImage(absoluteUrl, 1000, e, alt,
                                      <<"auto", st.idCounter>>, TRUE)),
              seen |-> st.seen \cup {src},
              idCounter |-> st.idCounter + 1]
        ELSE st

\* one iteration of the .each callback of extractLogos
LogoStep(st, e, base) ==
    LET src == OrElse(e.src, OrElse(e.dataSrc, e.href))
        alt == IF e.alt # "" THEN e.alt ELSE "Logo"
        absoluteUrl == makeAbsoluteUrl(src, base)
    IN  IF src # NoUrl /\ src \notin st.seen
           /\ absoluteUrl # NoUrl /\ isValidImageUrl(absoluteUrl)
        THEN [logos |-> Append(st.logos,
                         ScrapedImage(absoluteUrl, 1000, e, alt,
                                      <<"logo", st.idCounter>>, TRUE)),
              seen |-> st.seen \cup {src},
              idCounter |-> st.idCounter + 1]
        ELSE st

RECURSIVE LogoLoop(_, _, _, _)
LogoLoop(st, els, i, base) ==
    IF i > Len(els) \/ Len(st.logos) >= LOGO_LIMIT THEN st
    ELSE LogoLoop(LogoStep(st, els[i], base), els, i + 1, base)

RECURSIVE SelectSeq2(_, _)
SelectSeq2(s, i) ==
    IF i > Len(s) THEN <<>>
    ELSE (IF matchesLogoSelector(s[i]) THEN <<s[i]>> ELSE <<>>)
         \o SelectSeq2(s, i + 1)

\* a pre-pass that walks every match of the selector
extractLogosNoSlice(d, base) ==
    LogoLoop([logos |-> <<>>, seen |-> {}, idCounter |-> 0],
             SelectSeq2(d, 1), 1, base).logos

extractLogos(d, base) ==
    LET matched  == SelectSeq2(d, 1)
        firstTen == SubSeq(matched, 1, Min(Len(matched), LOGO_SCAN))
    IN  LogoLoop([logos |-> <<>>, seen |-> {}, idCounter |-> 0],
                 firstTen, 1, base).logos

\* an og:image block that tests the raw attribute, not the resolved URL
OgStepRawTest(st, og, base) ==
    LET absoluteUrl == makeAbsoluteUrl(og, base)
        ogElem == [width |-> 1200, height |-> 630]
    IN  IF og # NoUrl /\ og \notin st.seen
           /\ absoluteUrl # NoUrl /\ ~isPlaceholderImage(og)
        THEN [images |-> Append(st.images,
                          ScrapedImage(absoluteUrl, 1000, ogElem, "OG Image",
                                       <<"auto", st.idCounter>>, FALSE)),
              seen |-> st.seen \cup {og},
              idCounter |-> st.idCounter + 1]
        ELSE st

\* the og:image block of extractImages
OgStep(st, og, base) ==
    LET absoluteUrl == makeAbsoluteUrl(og, base)
        ogElem == [width |-> 1200, height |-> 630]
    IN  IF og # NoUrl /\ og \notin st.seen
           /\ absoluteUrl # NoUrl /\ ~isPlaceholderImage(absoluteUrl)
        THEN [images |-> Append(st.images,
                          ScrapedImage(absoluteUrl, 1000, ogElem, "OG Image",
                                       <<"auto", st.idCounter>>, FALSE)),
              seen |-> st.seen \cup {og},
              idCounter |-> st.idCounter + 1]
        ELSE st

\* one iteration of the .each callback over $('img')
ImgStep(st, e, base, logoUrls) ==
    LET dataSrc  == OrElse(e.dataSrc, e.dataLazySrc)
        imageSrc == IF e.src # NoUrl /\ ~isPlaceholderImage(e.src)
                    THEN e.src ELSE dataSrc
        absoluteUrl == makeAbsoluteUrl(imageSrc, base)
    IN  IF imageSrc # NoUrl /\ imageSrc \notin st.seen
           /\ absoluteUrl # NoUrl /\ isValidImageUrl(absoluteUrl)
        THEN IF isPlaceholderAlt(e.alt) \/ isPlaceholderClass(e.class)
             THEN st
             ELSE [images |-> Append(st.images,
                     ScrapedImage(absoluteUrl,
                                  calculateImageScoreFast(e, e.alt), e, e.alt,
                                  <<"auto", st.idCounter>>,
                                  absoluteUrl \in logoUrls
                                     \/ isLogoElement(e, imageSrc, e.alt))),
                   seen |-> st.seen \cup {imageSrc},
                   idCounter |-> st.idCounter + 1]
        ELSE st

RECURSIVE ImgLoop(_, _, _, _, _)
ImgLoop(st, els, i, base, logoUrls) ==
    IF i > Len(els) \/ Len(st.images) >= MAX_IMAGES THEN st
    ELSE ImgLoop(ImgStep(st, els[i], base, logoUrls), els, i + 1, base,
                 logoUrls)

\* a merge loop that does not look at the running count
RECURSIVE MergeLogosNoCount(_, _, _, _)
MergeLogosNoCount(imgs, seen, logos, i) ==
    IF i > Len(logos) THEN imgs
    ELSE MergeLogosNoCount(IF logos[i].url \notin seen
                           THEN Append(imgs, logos[i]) ELSE imgs,
                           seen, logos, i + 1)

\* "Add logos not already found"
RECURSIVE MergeLogos(_, _, _, _)
MergeLogos(imgs, seen, logos, i) ==
    IF i > Len(logos) THEN imgs
    ELSE MergeLogos(IF logos[i].url \notin seen /\ Len(imgs) < MAX_IMAGES
                    THEN Append(imgs, logos[i]) ELSE imgs,
                    seen, logos, i + 1)

\* a comparator that forgets the logo rule and ranks by score alone
SortsBeforeScoreOnly(a, b) == b.score - a.score < 0

\* the comparator of the final sort is negative: a goes before b
SortsBefore(a, b) ==
    IF a.isLogo /\ ~b.isLogo THEN TRUE
    ELSE IF ~a.isLogo /\ b.isLogo THEN FALSE
    ELSE b.score - a.score < 0

\* insert x behind every entry that does not have to follow it (stable)
RECURSIVE InsertSorted(_, _)
InsertSorted(s, x) ==
    IF s = <<>> THEN <<x>>
    ELSE IF SortsBefore(x, s[Len(s)])
         THEN Append(InsertSorted(SubSeq(s, 1, Len(s) - 1), x), s[Len(s)])
         ELSE Append(s, x)

\* Array.prototype.sort with the comparator above (stable)
RECURSIVE SortImages(_, _)
SortImages(s, n) ==
    IF n = 0 THEN <<>> ELSE InsertSorted(SortImages(s, n - 1), s[n])

\* an extractImages that reads og:image after the <img> elements
extractImagesOgLast(d, og, base) ==
    LET logos    == extractLogos(d, base)
        logoUrls == {logos[i].url : i \in DOMAIN logos}
        st0      == [images |-> <<>>, seen |-> {}, idCounter |-> 0]
        st1      == ImgLoop(st0, SubSeq(d, 1, Min(Len(d), IMG_SCAN)), 1,
                            base, logoUrls)
        st2      == OgStep(st1, og, base)
        merged   == MergeLogos(st2.images, st2.seen, logos, 1)
        sorted   == SortImages(merged, Len(merged))
    IN  SubSeq(sorted, 1, Min(Len(sorted), MAX_IMAGES))

extractImages(d, og, base) ==
    LET logos    == extractLogos(d, base)
        logoUrls == {logos[i].url : i \in DOMAIN logos}
        st0      == [images |-> <<>>, seen |-> {}, idCounter |-> 0]
        st1      == OgStep(st0, og, base)
        st2      == ImgLoop(st1, SubSeq(d, 1, Min(Len(d), IMG_SCAN)), 1,
                            base, logoUrls)
        merged   == MergeLogos(st2.images, st2.seen, logos, 1)
        sorted   == SortImages(merged, Len(merged))
    IN  SubSeq(sorted, 1, Min(Len(sorted), MAX_IMAGES))

(***************************************************************************)
(* Colour strings are sequences of characters.                             *)
(***************************************************************************)
LowerHexChars == <<"0", "1", "2", "3", "4", "5", "6", "7", "8", "9",
                   "a", "b", "c", "d", "e", "f">>

UpperHexChars == <<"0", "1", "2", "3", "4", "5", "6", "7", "8", "9",
                   "A", "B", "C", "D", "E", "F">>

LowerLetters == <<"a", "b", "c", "d", "e", "f", "g", "h", "i", "j", "k", "l",
                  "m", "n", "o", "p", "q", "r", "s", "t", "u", "v", "w", "x",
                  "y", "z">>

UpperLetters == <<"A", "B", "C", "D", "E", "F", "G", "H", "I", "J", "K", "L",
                  "M", "N", "O", "P", "Q", "R", "S", "T", "U", "V", "W", "X",
                  "Y", "Z">>

UpperChar(c) ==
    IF \E k \in 1..26 : LowerLetters[k] = c
    THEN UpperLetters[CHOOSE k \in 1..26 : LowerLetters[k] = c]
    ELSE c

\* String.prototype.toUpperCase
toUpperCase(s) == [i \in DOMAIN s |-> UpperChar(s[i])]

\* [a-f\d] with the i flag
IsHexDigit(c) == \E k \in 1..16 : UpperHexChars[k] = UpperChar(c)

\* Number.prototype.toString(16) for x >= 0
RECURSIVE toString16(_)
toString16(x) ==
    IF x < 16 THEN <<LowerHexChars[x + 1]>>
    ELSE Append(toString16(x \div 16), LowerHexChars[(x % 16) + 1])

\* parseInt(xy, 16)
parseInt16(x, y) ==
    LET val(c) == (CHOOSE k \in 1..16 : UpperHexChars[k] = UpperChar(c)) - 1
    IN  16 * val(x) + val(y)

NoRgb == [ok |-> FALSE, r |-> 0, g |-> 0, b |-> 0]

\* /^#?([a-f\d]{2})([a-f\d]{2})([a-f\d]{2})$/i
hexToRgbInternal(hex) ==
    LET body == IF hex # <<>> /\ hex[1] = "#" THEN Tail(hex) ELSE hex
    IN  IF Len(body) = 6 /\ \A i \in 1..6 : IsHexDigit(body[i])
        THEN [ok |-> TRUE, r |-> parseInt16(body[1], body[2]),
              g |-> parseInt16(body[3], body[4]),
              b |-> parseInt16(body[5], body[6])]
        ELSE NoRgb

\* x.toString(16).padStart(2, '0') for 0 <= x <= 255
toString16Pad2(x) ==
    LET digits == IF x < 16 THEN <<LowerHexChars[x + 1]>>
                  ELSE <<LowerHexChars[(x \div 16) + 1],
                         LowerHexChars[(x % 16) + 1]>>
    IN  IF Len(digits) < 2 THEN <<"0">> \o digits ELSE digits

adjustBrightness(hex, amount) ==
    LET rgb == hexToRgbInternal(hex)
        r   == Min(255, Max(0, rgb.r + amount))
        g   == Min(255, Max(0, rgb.g + amount))
        b   == Min(255, Max(0, rgb.b + amount))
    IN  IF ~rgb.ok THEN hex
        ELSE toUpperCase(<<"#">> \o toString16Pad2(r) \o toString16Pad2(g)
                                 \o toString16Pad2(b))

getDefaultColors ==
    << <<"#", "F", "F", "F", "F", "F", "F">>,
       <<"#", "1", "A", "1", "A", "1", "A">>,
       <<"#", "4", "A", "4", "A", "4", "A">>,
       <<"#", "3", "B", "8", "2", "F", "6">>,
       <<"#", "2", "5", "6", "3", "E", "B">>,
       <<"#", "D", "B", "E", "A", "F", "E">>,
       <<"#", "6", "B", "7", "2", "8", "0">>,
       <<"#", "F", "3", "F", "4", "F", "6">>,
       <<"#", "1", "0", "B", "9", "8", "1">>,
       <<"#", "F", "5", "9", "E", "0", "B">>,
       <<"#", "E", "F", "4", "4", "4", "4">>,
       <<"#", "8", "B", "5", "C", "F", "6">>,
       <<"#", "E", "C", "4", "8", "9", "9">>,
       <<"#", "1", "4", "B", "8", "A", "6">>,
       <<"#", "F", "9", "7", "3", "1", "6">>,
       <<"#", "0", "6", "B", "6", "D", "4">> >>

TARGET_TOTAL == 20

MIN_CSS_COLORS == 3

ColorPalette(hex, source, role_hint) ==
    [hex |-> hex, source |-> source, role_hint |-> role_hint]

\* palette.some(p => p.hex === hex)
SomeHex(palette, hex) == \E k \in DOMAIN palette : palette[k].hex = hex

\* palette.filter(c => c.source === 'css').length
CssCount(palette) == Cardinality({k \in DOMAIN palette : palette[k].source = "css"})

Slice(s, n) == SubSeq(s, 1, Min(Len(s), n))

(***************************************************************************)
(* GeminiService.buildColorPalette(aiColors, cssColors)                    *)
(***************************************************************************)
\* cssColors.forEach; i is the 0-based index
RECURSIVE BCP_AddCss(_, _, _)
BCP_AddCss(palette, cssColors, i) ==
    IF i >= Len(cssColors) THEN palette
    ELSE LET normalizedHex == toUpperCase(cssColors[i + 1])
             next == IF Len(palette) < TARGET_TOTAL
                        /\ ~SomeHex(palette, normalizedHex)
                     THEN Append(palette,
                            ColorPalette(normalizedHex, "css",
                               IF i = 0 THEN "primary" ELSE "extracted"))
                     ELSE palette
         IN  BCP_AddCss(next, cssColors, i + 1)

\* the while loop of "Ensure minimum CSS colors"
RECURSIVE BCP_MinCssLoop(_, _)
BCP_MinCssLoop(palette, baseColor) ==
    IF CssCount(palette) < MIN_CSS_COLORS
    THEN LET variation == adjustBrightness(baseColor, Len(palette) * 25)
         IN  IF ~SomeHex(palette, variation)
             THEN BCP_MinCssLoop(
                    Append(palette,
                           ColorPalette(variation, "css", "css_variation")),
                    baseColor)
             ELSE palette
    ELSE palette

BCP_EnsureMinCss(palette) ==
    IF Len(palette) > 0 /\ Len(palette) < MIN_CSS_COLORS
    THEN BCP_MinCssLoop(palette, palette[1].hex)
    ELSE palette

\* aiColors.forEach; an absent hex or role is the empty string
RECURSIVE BCP_AddAi(_, _, _)
BCP_AddAi(palette, aiColors, i) ==
    IF i > Len(aiColors) THEN palette
    ELSE LET c    == aiColors[i]
             hex  == toUpperCase(c.hex)
             next == IF Len(palette) < TARGET_TOTAL
                        /\ hex # <<>> /\ ~SomeHex(palette, hex)
                     THEN Append(palette,
                            ColorPalette(hex, "ai",
                               IF c.role # "" THEN c.role ELSE "ai_suggested"))
                     ELSE palette
         IN  BCP_AddAi(next, aiColors, i + 1)

\* "Fill with defaults"; i is the 0-based index into defaults
RECURSIVE BCP_FillDefaults(_, _)
BCP_FillDefaults(palette, i) ==
    IF Len(palette) < TARGET_TOTAL /\ i < Len(getDefaultColors)
    THEN BCP_FillDefaults(
            IF ~SomeHex(palette, getDefaultColors[i + 1])
            THEN Append(palette,
                        ColorPalette(getDefaultColors[i + 1], "ai", "default"))
            ELSE palette,
            i + 1)
    ELSE palette

buildColorPalette(aiColors, cssColors) ==
    LET withCss == BCP_EnsureMinCss(BCP_AddCss(<<>>, cssColors, 0))
        withAi  == BCP_AddAi(withCss, aiColors, 1)
    IN  Slice(BCP_FillDefaults(withAi, 0), TARGET_TOTAL)

(***************************************************************************)
(* The palette built in GeminiService.buildAnalysisResult(parsed, input)   *)
(***************************************************************************)
RECURSIVE BAR_AddCss(_, _, _)
BAR_AddCss(palette, cssColors, i) ==
    IF i >= Len(cssColors) THEN palette
    ELSE LET normalizedHex == toUpperCase(cssColors[i + 1])
             next == IF Len(palette) < TARGET_TOTAL
                        /\ ~SomeHex(palette, normalizedHex)
                     THEN Append(palette,
                            ColorPalette(normalizedHex, "css",
                               IF i = 0 THEN "primary"
                               ELSE IF i = 1 THEN "secondary"
                               ELSE "extracted"))
                     ELSE palette
         IN  BAR_AddCss(next, cssColors, i + 1)

RECURSIVE BAR_MinCssLoop(_, _, _)
BAR_MinCssLoop(palette, baseColor, cssCount) ==
    IF CssCount(palette) < MIN_CSS_COLORS
    THEN LET variation ==
                adjustBrightness(baseColor,
                                 (Len(palette) - cssCount + 1) * 25)
         IN  IF ~SomeHex(palette, variation)
             THEN BAR_MinCssLoop(
                    Append(palette,
                           ColorPalette(variation, "css", "css_variation")),
                    baseColor, cssCount)
             ELSE palette
    ELSE palette

BAR_EnsureMinCss(palette) ==
    LET cssCount == Len(palette)
    IN  IF cssCount > 0 /\ cssCount < MIN_CSS_COLORS
        THEN BAR_MinCssLoop(palette, palette[1].hex, cssCount)
        ELSE palette

RECURSIVE BAR_AddAi(_, _, _)
BAR_AddAi(palette, aiColors, i) ==
    IF i > Len(aiColors) THEN palette
    ELSE LET c    == aiColors[i]
             hex  == IF toUpperCase(c.hex) # <<>> THEN toUpperCase(c.hex)
                     ELSE getDefaultColors[
                            (Len(palette) % Len(getDefaultColors)) + 1]
             next == IF Len(palette) < TARGET_TOTAL /\ ~SomeHex(palette, hex)
                     THEN Append(palette,
                            ColorPalette(hex, "ai",
                               IF c.role # "" THEN c.role ELSE "ai_suggested"))
                     ELSE palette
         IN  BAR_AddAi(next, aiColors, i + 1)

\* "Fill remaining with defaults if needed to reach TARGET_TOTAL"
RECURSIVE BAR_FillDefaults(_)
BAR_FillDefaults(palette) ==
    IF Len(palette) < TARGET_TOTAL
    THEN LET defaultColor ==
                getDefaultColors[(Len(palette) % Len(getDefaultColors)) + 1]
         IN  BAR_FillDefaults(
                IF ~SomeHex(palette, defaultColor)
                THEN Append(palette,
                            ColorPalette(defaultColor, "ai", "complement"))
                ELSE Append(palette,
                            ColorPalette(
                               adjustBrightness(defaultColor,
                                                Len(palette) * 8),
                               "ai", "variation")))
    ELSE palette

buildAnalysisResult(aiColors, cssColors) ==
    LET withCss == BAR_EnsureMinCss(BAR_AddCss(<<>>, cssColors, 0))
        withAi  == BAR_AddAi(withCss, aiColors, 1)
    IN  Slice(BAR_FillDefaults(withAi), TARGET_TOTAL)

(***************************************************************************)
(* The palette built in GeminiService.getFallbackAnalysisResult(input)     *)
(***************************************************************************)
RECURSIVE FB_AddCss(_, _, _)
FB_AddCss(palette, cssColors, i) ==
    IF i >= Len(cssColors) THEN palette
    ELSE LET normalizedHex == toUpperCase(cssColors[i + 1])
             next == IF ~SomeHex(palette, normalizedHex)
                     THEN Append(palette,
                            ColorPalette(normalizedHex, "css",
                               IF i = 0 THEN "primary" ELSE "extracted"))
                     ELSE palette
         IN  FB_AddCss(next, cssColors, i + 1)

RECURSIVE FB_MinCssLoop(_, _)
FB_MinCssLoop(palette, baseColor) ==
    IF CssCount(palette) < MIN_CSS_COLORS
    THEN LET variation == adjustBrightness(baseColor, Len(palette) * 25)
         IN  IF ~SomeHex(palette, variation)
             THEN FB_MinCssLoop(
                    Append(palette,
                           ColorPalette(variation, "css", "css_variation")),
                    baseColor)
             ELSE palette
    ELSE palette

FB_EnsureMinCss(palette) ==
    IF Len(palette) > 0 /\ Len(palette) < MIN_CSS_COLORS
    THEN FB_MinCssLoop(palette, palette[1].hex)
    ELSE palette

\* this.getDefaultColors().forEach
RECURSIVE FB_FillDefaults(_, _)
FB_FillDefaults(palette, i) ==
    IF i >= Len(getDefaultColors) THEN palette
    ELSE FB_FillDefaults(
            IF Len(palette) < TARGET_TOTAL
               /\ ~SomeHex(palette, getDefaultColors[i + 1])
            THEN Append(palette,
                        ColorPalette(getDefaultColors[i + 1], "ai", "default"))
            ELSE palette,
            i + 1)

getFallbackAnalysisResult(cssColors) ==
    LET withCss == FB_EnsureMinCss(FB_AddCss(<<>>, cssColors, 0))
    IN  Slice(FB_FillDefaults(withCss, 0), TARGET_TOTAL)

(***************************************************************************)
(* ColorExtractor.complementTo16Colors (target 16)                         *)
(*                                                                         *)
(* The code computes HSL in doubles.  Here hue, saturation and lightness   *)
(* are exact fractions: hue = hn/hd degrees, saturation = sn/sd, lightness *)
(* = ln/1020.  The exact value and the double agree after Math.round       *)
(* except where the exact channel value is k + 1/2: there the double lies  *)
(* a rounding error above or below, and Math.round gives k + 1 or k.  The  *)
(* set "down" names the channels (base, variation, channel) at which such  *)
(* a tie falls to k; every subset is a possible outcome.                   *)
(***************************************************************************)
TARGET_COLORS == 16

\* /^#?([a-f\d]{2})([a-f\d]{2})([a-f\d]{2})$/i
hexToRgb(hex) ==
    LET body == IF hex # <<>> /\ hex[1] = "#" THEN Tail(hex) ELSE hex
    IN  IF Len(body) = 6 /\ \A i \in 1..6 : IsHexDigit(body[i])
        THEN [ok |-> TRUE, r |-> parseInt16(body[1], body[2]),
              g |-> parseInt16(body[3], body[4]),
              b |-> parseInt16(body[5], body[6])]
        ELSE NoRgb

rgbToHex(r, g, b) ==
    LET hex2(x) == LET hex == toString16(x)
                   IN  IF Len(hex) = 1 THEN <<"0">> \o hex ELSE hex
    IN  toUpperCase(<<"#">> \o hex2(r) \o hex2(g) \o hex2(b))

\* h * 360 = hn/hd, s = sn/sd, l = (max + min)/2 = ln/1020
rgbToHsl(r, g, b) ==
    LET max == Max(r, Max(g, b))
        min == Min(r, Min(g, b))
        d   == max - min
        ln  == 2 * (max + min)
    IN  IF max = min
        THEN [hn |-> 0, hd |-> 1, sn |-> 0, sd |-> 1, ln |-> ln]
        ELSE [hn |-> IF max = r
                     THEN 60 * (g - b) + (IF g < b THEN 360 * d ELSE 0)
                     ELSE IF max = g THEN 60 * (b - r) + 120 * d
                     ELSE 60 * (r - g) + 240 * d,
              hd |-> d,
              sn |-> d,
              sd |-> IF ln > 510 THEN 510 - (max + min) ELSE max + min,
              ln |-> ln]

\* One channel of hslToRgb, times 255, before and after Math.round.
\* hue2rgb(p, q, t) is p + (q - p) * f with f = 6t, 1, 4 - 6t or 0; in both
\* branches of q, q - p = 2 * s * min(l, 1 - l) and p = l - (q - p)/2, so
\* the channel is 255*l + 255 * s * min(l, 1 - l) * (2f - 1), which is also
\* 255*l when s = 0.  tn is t in units of 1/(360*hd).  The sum is split into
\* its integer part and a fraction num/den to stay inside 32-bit integers.
hslChannel(hsl, tn0) ==
    LET hd  == hsl.hd
        tn  == tn0 % (360 * hd)
        gn  == IF tn < 60 * hd THEN tn - 30 * hd
               ELSE IF tn < 180 * hd THEN 30 * hd
               ELSE IF tn < 240 * hd THEN 210 * hd - tn
               ELSE -30 * hd
        gd  == 30 * hd
        lm  == IF hsl.ln < 510 THEN hsl.ln ELSE 1020 - hsl.ln
        e1  == hsl.sn * lm
        f1  == 4 * hsl.sd
        k   == e1 \div f1
        rr  == e1 - k * f1
        c   == (k * gn) \div gd
        rem == k * gn - c * gd
        a   == hsl.ln \div 4
        bb  == hsl.ln - 4 * a
        den == f1 * gd
        num == bb * hsl.sd * gd + rem * f1 + rr * gn
    IN  [round |-> a + c + ((2 * num + den) \div (2 * den)),
         tie   |-> (2 * num + den) % (2 * den) = 0]

\* the three channels of hslToRgb(h, s, l)
hslToRgb(hsl) ==
    <<hslChannel(hsl, hsl.hn + 120 * hsl.hd),
      hslChannel(hsl, hsl.hn),
      hslChannel(hsl, hsl.hn + 240 * hsl.hd)>>

\* the HSL triple of variation i of the base colour
VariationHsl(hsl, i) ==
    LET lightnessShift  == ((i % 3) - 1) * 153
        saturationShift == IF i % 2 = 0 THEN hsl.sd ELSE -hsl.sd
        hueShift        == (i % 4) * 15
    IN  [hn |-> (hsl.hn + hueShift * hsl.hd) % (360 * hsl.hd),
         hd |-> hsl.hd,
         sn |-> Min(10 * hsl.sd, Max(0, 10 * hsl.sn + saturationShift)),
         sd |-> 10 * hsl.sd,
         ln |-> Min(918, Max(102, hsl.ln + lightnessShift))]

\* the channels of variation i at which the exact value is a tie
VariationTies(baseHex, i) ==
    LET baseRgb == hexToRgb(baseHex)
        ch == hslToRgb(VariationHsl(rgbToHsl(baseRgb.r, baseRgb.g, baseRgb.b),
                                    i))
    IN  IF ~baseRgb.ok THEN {} ELSE {c \in 1..3 : ch[c].tie}

\* variations i .. count-1 of generateColorVariations; down holds the
\* <<i, channel>> pairs whose tie falls to the lower integer
RECURSIVE VariationLoop(_, _, _, _)
VariationLoop(hsl, i, count, down) ==
    IF i >= count THEN <<>>
    ELSE LET ch == hslToRgb(VariationHsl(hsl, i))
             v(c) == ch[c].round
                       - (IF ch[c].tie /\ <<i, c>> \in down THEN 1 ELSE 0)
         IN  <<rgbToHex(v(1), v(2), v(3))>>
                \o VariationLoop(hsl, i + 1, count, down)

generateColorVariations(baseHex, count, down) ==
    LET baseRgb == hexToRgb(baseHex)
    IN  IF ~baseRgb.ok THEN <<>>
        ELSE VariationLoop(rgbToHsl(baseRgb.r, baseRgb.g, baseRgb.b),
                           0, count, down)

getDefaultPalette ==
    << ColorPalette(<<"#", "3", "B", "8", "2", "F", "6">>, "fill", "primary"),
       ColorPalette(<<"#", "1", "E", "4", "0", "A", "F">>, "fill", "accent"),
       ColorPalette(<<"#", "D", "B", "E", "A", "F", "E">>, "fill", "light"),
       ColorPalette(<<"#", "1", "0", "B", "9", "8", "1">>, "fill", "success"),
       ColorPalette(<<"#", "F", "5", "9", "E", "0", "B">>, "fill", "warning"),
       ColorPalette(<<"#", "E", "F", "4", "4", "4", "4">>, "fill", "danger"),
       ColorPalette(<<"#", "8", "B", "5", "C", "F", "6">>, "fill", "secondary"),
       ColorPalette(<<"#", "6", "B", "7", "2", "8", "0">>, "fill", "neutral"),
       ColorPalette(<<"#", "E", "C", "4", "8", "9", "9">>, "fill", "pink"),
       ColorPalette(<<"#", "1", "4", "B", "8", "A", "6">>, "fill", "teal"),
       ColorPalette(<<"#", "F", "9", "7", "3", "1", "6">>, "fill", "orange"),
       ColorPalette(<<"#", "8", "4", "C", "C", "1", "6">>, "fill", "lime"),
       ColorPalette(<<"#", "0", "6", "B", "6", "D", "4">>, "fill", "cyan"),
       ColorPalette(<<"#", "A", "8", "5", "5", "F", "7">>, "fill", "purple"),
       ColorPalette(<<"#", "F", "4", "3", "F", "5", "E">>, "fill", "rose"),
       ColorPalette(<<"#", "0", "E", "A", "5", "E", "9">>, "fill", "sky") >>

\* variations.forEach of complementTo16Colors, without the duplicate test
RECURSIVE AddVariationsNoTest(_, _, _)
AddVariationsNoTest(colors, variations, j) ==
    IF j > Len(variations) THEN colors
    ELSE AddVariationsNoTest(
            IF Len(colors) < TARGET_COLORS
            THEN Append(colors, ColorPalette(variations[j], "fill",
                                             "variation"))
            ELSE colors,
            variations, j + 1)

\* variations.forEach of complementTo16Colors
RECURSIVE AddVariations(_, _, _)
AddVariations(colors, variations, j) ==
    IF j > Len(variations) THEN colors
    ELSE AddVariations(
            IF Len(colors) < TARGET_COLORS /\ ~SomeHex(colors, variations[j])
            THEN Append(colors, ColorPalette(variations[j], "fill",
                                             "variation"))
            ELSE colors,
            variations, j + 1)

\* baseColors.forEach of complementTo16Colors; b is the 1-based position
RECURSIVE AddBaseColors(_, _, _, _, _)
AddBaseColors(colors, baseColors, b, needed, down) ==
    IF b > Len(baseColors) THEN colors
    ELSE IF Len(colors) >= TARGET_COLORS
    THEN AddBaseColors(colors, baseColors, b + 1, needed, down)
    ELSE LET count == (needed + Len(baseColors) - 1) \div Len(baseColors)
             variations ==
                 generateColorVariations(baseColors[b].hex, count,
                    {<<t[2], t[3]>> : t \in {u \in down : u[1] = b}})
         IN  AddBaseColors(AddVariations(colors, variations, 1),
                           baseColors, b + 1, needed, down)

\* a default fill that gives up at the first default already present
RECURSIVE FillDefaultPaletteStop(_, _)
FillDefaultPaletteStop(colors, colorIndex) ==
    IF Len(colors) < TARGET_COLORS /\ colorIndex < Len(getDefaultPalette)
    THEN IF ~SomeHex(colors, getDefaultPalette[colorIndex + 1].hex)
         THEN FillDefaultPaletteStop(
                 Append(colors, getDefaultPalette[colorIndex + 1]),
                 colorIndex + 1)
         ELSE colors
    ELSE colors

\* "Fill remaining with default palette"
RECURSIVE FillDefaultPalette(_, _)
FillDefaultPalette(colors, colorIndex) ==
    IF Len(colors) < TARGET_COLORS /\ colorIndex < Len(getDefaultPalette)
    THEN FillDefaultPalette(
            IF ~SomeHex(colors, getDefaultPalette[colorIndex + 1].hex)
            THEN Append(colors, getDefaultPalette[colorIndex + 1])
            ELSE colors,
            colorIndex + 1)
    ELSE colors

\* a complement that takes every harvested colour as a base colour
complementTo16ColorsAllBases(extracted, down) ==
    LET colors     == extracted
        baseColors == colors
        needed     == TARGET_COLORS - Len(colors)
        varied     == IF Len(baseColors) > 0
                      THEN AddBaseColors(colors, baseColors, 1, needed, down)
                      ELSE colors
    IN  IF Len(colors) >= TARGET_COLORS THEN Slice(colors, TARGET_COLORS)
        ELSE Slice(FillDefaultPalette(varied, 0), TARGET_COLORS)

complementTo16Colors(extracted, down) ==
    LET colors     == extracted
        baseColors == Slice(colors, Min(Len(colors), 4))
        needed     == TARGET_COLORS - Len(colors)
        varied     == IF Len(baseColors) > 0
                      THEN AddBaseColors(colors, baseColors, 1, needed, down)
                      ELSE colors
    IN  IF Len(colors) >= TARGET_COLORS THEN Slice(colors, TARGET_COLORS)
        ELSE Slice(FillDefaultPalette(varied, 0), TARGET_COLORS)

\* every <<base, variation, channel>> of the call at which a tie occurs
RoundingTies(extracted) ==
    LET nb     == Min(Len(extracted), 4)
        needed == TARGET_COLORS - Len(extracted)
        count  == IF nb = 0 \/ needed <= 0 THEN 0
                  ELSE (needed + nb - 1) \div nb
    IN  {t \in (1..nb) \X (0..(count - 1)) \X (1..3) :
            t[3] \in VariationTies(extracted[t[1]].hex, t[2])}

(***************************************************************************)
(* ColorExtractor.extractColors.  A document is the sequence of its colour *)
(* sources in the order the six harvesting stages read them; a source is   *)
(* [text, role]: the attribute or declaration value and the role hint of   *)
(* the stage that reads it.  Each value holds one colour token, at its     *)
(* start.                                                                   *)
(***************************************************************************)
Null == <<"null">>

DecDigits == <<"0", "1", "2", "3", "4", "5", "6", "7", "8", "9">>

IsDecDigit(c) == \E k \in 1..10 : DecDigits[k] = c

DigitValue(c) == (CHOOSE k \in 1..10 : DecDigits[k] = c) - 1

\* String.prototype.startsWith
startsWith(str, prefix) ==
    Len(str) >= Len(prefix) /\ SubSeq(str, 1, Len(prefix)) = prefix

\* color.match(/\d+/g) followed by parseInt of each match; cur is the value
\* of the digit run being read, -1 outside a run
RECURSIVE matchDigits(_, _, _)
matchDigits(str, i, cur) ==
    IF i > Len(str) THEN (IF cur >= 0 THEN <<cur>> ELSE <<>>)
    ELSE IF IsDecDigit(str[i])
    THEN matchDigits(str, i + 1,
                     (IF cur >= 0 THEN 10 * cur ELSE 0) + DigitValue(str[i]))
    ELSE (IF cur >= 0 THEN <<cur>> ELSE <<>>) \o matchDigits(str, i + 1, -1)

normalizeColor(color) ==
    IF startsWith(color, <<"#">>)
    THEN IF Len(color) = 4
         THEN <<"#", color[2], color[2], color[3], color[3],
                color[4], color[4]>>
         ELSE toUpperCase(color)
    ELSE IF startsWith(color, <<"r", "g", "b">>)
    THEN LET matches == matchDigits(color, 1, -1)
         IN  IF Len(matches) >= 3
             THEN rgbToHex(matches[1], matches[2], matches[3])
             ELSE Null
    ELSE Null

\* an isValidColor that keeps the neutral mid-greys
isValidColorNoGreyTest(hex) ==
    LET rgb == hexToRgb(hex)
    IN  IF ~rgb.ok THEN FALSE
        ELSE IF rgb.r > 250 /\ rgb.g > 250 /\ rgb.b > 250 THEN FALSE
        ELSE IF rgb.r < 5 /\ rgb.g < 5 /\ rgb.b < 5 THEN FALSE
        ELSE TRUE

\* saturation = (max - min) / max < 0.05 is 20 * (max - min) < max
isValidColor(hex) ==
    LET rgb == hexToRgb(hex)
        max == Max(rgb.r, Max(rgb.g, rgb.b))
        min == Min(rgb.r, Min(rgb.g, rgb.b))
        lowSaturation == IF max = 0 THEN TRUE ELSE 20 * (max - min) < max
    IN  IF ~rgb.ok THEN FALSE
        ELSE IF rgb.r > 250 /\ rgb.g > 250 /\ rgb.b > 250 THEN FALSE
        ELSE IF rgb.r < 5 /\ rgb.g < 5 /\ rgb.b < 5 THEN FALSE
        ELSE IF lowSaturation /\ max > 50 /\ max < 200 THEN FALSE
        ELSE TRUE

\* an addColor that does not consult seenHex
addColorNoSeenTest(st, hex, source, role_hint) ==
    LET normalized0 == toUpperCase(hex)
    IN  IF isValidColor(normalized0)
        THEN [colors  |-> Append(st.colors,
                                 ColorPalette(normalized0, source, role_hint)),
              seenHex |-> st.seenHex \cup {normalized0}]
        ELSE st

\* the addColor helper; st is [colors, seenHex]
addColor(st, hex, source, role_hint) ==
    LET normalized0 == toUpperCase(hex)
    IN  IF normalized0 \notin st.seenHex /\ isValidColor(normalized0)
        THEN [colors  |-> Append(st.colors,
                                 ColorPalette(normalized0, source, role_hint)),
              seenHex |-> st.seenHex \cup {normalized0}]
        ELSE st

\* the number of hex digits that follow the '#' at the start of str
RECURSIVE HexRun(_, _)
HexRun(str, i) ==
    IF i <= Len(str) /\ IsHexDigit(str[i]) THEN 1 + HexRun(str, i + 1) ELSE 0

\* the position of the first ')' at or after i, 0 if there is none
RECURSIVE CloseParen(_, _)
CloseParen(str, i) ==
    IF i > Len(str) THEN 0
    ELSE IF str[i] = ")" THEN i ELSE CloseParen(str, i + 1)

\* /#[0-9A-Fa-f]{6}|#[0-9A-Fa-f]{3}/ at the start of str
matchHex(str) ==
    IF ~startsWith(str, <<"#">>) THEN Null
    ELSE IF HexRun(str, 2) >= 6 THEN SubSeq(str, 1, 7)
    ELSE IF HexRun(str, 2) >= 3 THEN SubSeq(str, 1, 4)
    ELSE Null

\* /rgb\([^)]+\)|rgba\([^)]+\)/ at the start of str
matchRgb(str) ==
    LET open == IF startsWith(str, <<"r", "g", "b", "(">>) THEN 4
                ELSE IF startsWith(str, <<"r", "g", "b", "a", "(">>) THEN 5
                ELSE 0
        close == CloseParen(str, open + 1)
    IN  IF open > 0 /\ close > open + 1 THEN SubSeq(str, 1, close) ELSE Null

StageOf(role) ==
    CASE role = "inline" -> 1
      [] role \in {"background", "text", "border"} -> 2
      [] role = "stylesheet" -> 3
      [] role = "external" -> 4
      [] role = "theme" -> 5
      [] role = "svg" -> 6

\* what the stage hands to normalizeColor for this source, Null for nothing
colorToken(src) ==
    CASE StageOf(src.role) = 1 ->
            IF matchHex(src.text) # Null THEN matchHex(src.text)
            ELSE matchRgb(src.text)
      [] StageOf(src.role) \in {3, 4} -> matchHex(src.text)
      [] StageOf(src.role) \in {2, 5} ->
            IF src.text # <<>> THEN src.text ELSE Null
      [] StageOf(src.role) = 6 ->
            IF src.text # <<>> /\ src.text # <<"n", "o", "n", "e">>
            THEN src.text ELSE Null

\* one colour source read by its stage
ColorStep(st, src) ==
    LET token == colorToken(src)
        hex   == IF token = Null THEN Null ELSE normalizeColor(token)
    IN  IF hex # Null THEN addColor(st, hex, "css", src.role) ELSE st

\* the sources of stage n in document order; meta theme-color is read once
RECURSIVE StageSources(_, _, _)
StageSources(d, n, i) ==
    IF i > Len(d) THEN <<>>
    ELSE LET rest == StageSources(d, n, i + 1)
         IN  IF StageOf(d[i].role) = n
             THEN (IF n = 5 THEN <<d[i]>> ELSE <<d[i]>> \o rest)
             ELSE rest

RECURSIVE ColorLoop(_, _, _)
ColorLoop(st, srcs, i) ==
    IF i > Len(srcs) THEN st
    ELSE ColorLoop(ColorStep(st, srcs[i]), srcs, i + 1)

RECURSIVE ColorStages(_, _, _)
ColorStages(st, d, n) ==
    IF n > 6 THEN st
    ELSE ColorStages(ColorLoop(st, StageSources(d, n, 1), 1), d, n + 1)

extractColors(d) ==
    Slice(ColorStages([colors |-> <<>>, seenHex |-> {}], d, 1).colors,
          TARGET_COLORS)

(***************************************************************************)
(* Documents handed to extractImages.                                      *)
(***************************************************************************)
MaxImgs == 2

ShopOrigin == "https://shop.example"

BaseUrls == {Url("abs", ShopOrigin, <<"lp", "index.html">>),
             Url("abs", ShopOrigin, <<"coming-soon", "index.html">>)}

relHero == Url("rel", "", <<"hero.jpg">>)

rootHero == Url("root", "", <<"lp", "hero.jpg">>)

relLogo == Url("rel", "", <<"logo.png">>)

absLogo == Url("abs", ShopOrigin, <<"lp", "logo.png">>)

relBanner == Url("rel", "", <<"banner.png">>)

relPlaceholder == Url("rel", "", <<"placeholder.png">>)

relAbout == Url("rel", "", <<"about.html">>)

OgImages == {NoUrl, relHero, absLogo, relPlaceholder}

ImgElements ==
    { Img(relHero, NoUrl, "", "", "body", 0, 0, ""),
      Img(rootHero, NoUrl, "Summer sale banner", "", "body", 800, 0, "hero"),
      Img(relBanner, NoUrl, "Shoe", "", "body", 0, 600, ""),
      Img(relLogo, NoUrl, "Company Logo", "", "header", 200, 0, ""),
      Img(absLogo, NoUrl, "", "", "header", 0, 40, ""),
      Img(relLogo, NoUrl, "", "site-logo", "body", 0, 0, "hero"),
      Img(relHero, NoUrl, "No image found", "", "header", 0, 0, ""),
      Img(relBanner, NoUrl, "", "", "nav", 0, 0, ""),
      Img(relPlaceholder, relHero, "", "", "body", 0, 0, ""),
      Img(relPlaceholder, NoUrl, "", "", ".logo", 0, 0, ""),
      Img(relBanner, NoUrl, "", "skeleton", "body", 0, 0, ""),
      Img(DataUri, NoUrl, "", "", "body", 0, 0, ""),
      Img(NoUrl, rootHero, "", "", "header", 500, 500, ""),
      Img(relAbout, NoUrl, "", "", "body", 0, 0, ""),
      Img(relHero, NoUrl, "", "", "nav", 0, 120, ""),
      Img(relBanner, NoUrl, "Summer sale banner", "", "body", 800, 0, "") }

(***************************************************************************)
(* Galleries: documents long enough to meet MAX_IMAGES.  The last segment  *)
(* of a gallery URL is its query string, which makes the URLs distinct.    *)
(***************************************************************************)
MaxGallery == 31

GalleryKeys ==
    << "01", "02", "03", "04", "05", "06", "07", "08", "09",
       "10", "11", "12", "13", "14", "15", "16", "17", "18",
       "19", "20", "21", "22", "23", "24", "25", "26", "27",
       "28", "29", "30", "31", "32", "33", "34", "35", "36",
       "37", "38", "39", "40", "41", "42", "43", "44", "45",
       "46", "47", "48" >>

GalleryImg(i) ==
    Img(Url("rel", "", <<"photo.jpg", GalleryKeys[i]>>), NoUrl,
        IF i % 4 = 0 THEN "Summer sale banner" ELSE "", "", "body",
        IF i % 3 = 0 THEN 800 ELSE 0, 0, IF i % 5 = 0 THEN "hero" ELSE "")

GalleryLogo(j) ==
    Img(Url("rel", "", <<"logo.png", GalleryKeys[j]>>), NoUrl, "", "",
        "header", 120, 40, "")

Gallery(n, k, logosFirst) ==
    LET photos == [i \in 1..n |-> GalleryImg(i)]
        logos  == [j \in 1..k |-> GalleryLogo(j)]
    IN  IF logosFirst THEN logos \o photos ELSE photos \o logos

GalleryDocs ==
    {Gallery(n, k, f) : n \in (MaxGallery - 3)..MaxGallery, k \in {0, 1, 4},
                        f \in BOOLEAN}

\* Logo strips: a header whose first images are links to pages, not image
\* files, followed by logo files; long enough to meet LOGO_SCAN.
MaxStrip == 10

StripLink(j) ==
    Img(Url("rel", "", <<"about.html", GalleryKeys[j]>>), NoUrl, "", "",
        "header", 120, 40, "")

LogoStrip(bad, good) ==
    [j \in 1..bad |-> StripLink(j)] \o [j \in 1..good |-> GalleryLogo(j)]

LogoStrips ==
    {LogoStrip(bad, good) : bad \in (MaxStrip - 2)..MaxStrip,
                            good \in {1, 2, 4}}

RECURSIVE SeqsUpTo(_, _)
SeqsUpTo(S, n) ==
    IF n = 0 THEN {<<>>}
    ELSE LET shorter == SeqsUpTo(S, n - 1)
         IN  shorter \cup {Append(s, x) : s \in shorter, x \in S}

imgVars == <<baseUrl, ogImage, doc, images, logoResult>>

paletteVars ==
    <<extractedColors, parsedColors, builder, cssStage, colorPalette,
      iterations>>

NoImages ==
    /\ baseUrl = NoUrl
    /\ ogImage = NoUrl
    /\ doc = <<>>
    /\ images = <<>>
    /\ logoResult = <<>>

harvestVars == <<harvested, palette16>>

NoHarvest ==
    /\ harvested = <<>>
    /\ palette16 = <<>>

NoPalette ==
    /\ extractedColors = <<>>
    /\ parsedColors = <<>>
    /\ builder = "none"
    /\ cssStage = <<>>
    /\ colorPalette = <<>>
    /\ iterations = 0

colorVars == <<styleColors, basePalette, normalized>>

NoColors ==
    /\ styleColors = <<>>
    /\ basePalette = <<>>
    /\ normalized = <<>>

scrapeVars == <<targetUrl, attempts, requests, outcome, contacted>>

NoScrape ==
    /\ targetUrl = NoUrl
    /\ attempts = 0
    /\ requests = 0
    /\ outcome = <<>>
    /\ contacted = <<>>

callVars == <<calls>>

NoCalls == calls = <<>>

keywordVars == <<content, keywords>>

NoKeywords ==
    /\ content = <<>>
    /\ keywords = <<>>

handlerVars ==
    <<urls, urlIndex, allImages, allCssColors, allAnalysisInputs,
      primaryContext, urlResults, response>>

NoHandler ==
    /\ urls = <<>>
    /\ urlIndex = 0
    /\ allImages = <<>>
    /\ allCssColors = <<>>
    /\ allAnalysisInputs = <<>>
    /\ primaryContext = <<>>
    /\ urlResults = <<>>
    /\ response = <<>>

vars == <<pc, baseUrl, ogImage, doc, images, logoResult,
          extractedColors, parsedColors, builder, cssStage, colorPalette,
          iterations,
          harvested, palette16, styleColors, basePalette, normalized,
          targetUrl, attempts, requests, outcome, contacted, calls,
          content, keywords,
          urls, urlIndex, allImages, allCssColors, allAnalysisInputs,
          primaryContext, urlResults, response>>

InitImages ==
    /\ pc = "start"
    /\ baseUrl \in BaseUrls
    /\ ogImage \in OgImages
    /\ doc \in SeqsUpTo(ImgElements, MaxImgs) \cup GalleryDocs \cup LogoStrips
    /\ images = <<>>
    /\ logoResult = <<>>
    /\ NoPalette
    /\ NoHarvest
    /\ NoColors
    /\ NoScrape
    /\ NoCalls
    /\ NoKeywords
    /\ NoHandler

\* WebScraper.extractImages($, baseUrl)
ExtractImages ==
    /\ pc = "start"
    /\ logoResult' = extractLogos(doc, baseUrl)
    /\ images' = extractImages(doc, ogImage, baseUrl)
    /\ pc' = "done"
    /\ UNCHANGED <<colorVars, scrapeVars, callVars, keywordVars, handlerVars>>
    /\ UNCHANGED <<baseUrl, ogImage, doc>>
    /\ UNCHANGED paletteVars
    /\ UNCHANGED harvestVars

NextImages == ExtractImages

SpecImages == InitImages /\ [][NextImages]_vars

(***************************************************************************)
(* Inputs of the palette assembly (target 20, minimum 3 CSS colours).      *)
(***************************************************************************)
MaxCss == 2

MaxAi == 2

CssCandidates ==
    { <<"#", "3", "b", "8", "2", "f", "6">>,
      <<"#", "F", "0", "F", "0", "E", "6">>,
      <<"#", "1", "0", "2", "0", "3", "0">>,
      <<"#", "4", "2", "5", "2", "6", "2">> }

AiColor(hex, role) == [hex |-> hex, role |-> role]

AiCandidates ==
    { AiColor(<<"#", "f", "f", "f", "f", "f", "f">>, "background"),
      AiColor(<<"#", "1", "0", "2", "0", "3", "0">>, ""),
      AiColor(<<>>, "accent"),
      AiColor(<<"#", "a", "b", "c">>, "accent") }

InitPaletteB ==
    /\ pc = "start"
    /\ extractedColors \in SeqsUpTo(CssCandidates, MaxCss)
    /\ parsedColors \in SeqsUpTo(AiCandidates, MaxAi)
    /\ builder = "none"
    /\ cssStage = <<>>
    /\ colorPalette = <<>>
    /\ iterations = 0
    /\ NoImages
    /\ NoHarvest
    /\ NoColors
    /\ NoScrape
    /\ NoCalls
    /\ NoKeywords
    /\ NoHandler

\* GeminiService.buildColorPalette(parsed.colors, input.extractedColors)
BuildColorPalette ==
    /\ pc = "start"
    /\ builder' = "buildColorPalette"
    /\ cssStage' = BCP_EnsureMinCss(BCP_AddCss(<<>>, extractedColors, 0))
    /\ colorPalette' = buildColorPalette(parsedColors, extractedColors)
    /\ pc' = "done"
    /\ UNCHANGED <<colorVars, scrapeVars, callVars, keywordVars, handlerVars>>
    /\ UNCHANGED <<extractedColors, parsedColors, iterations>>
    /\ UNCHANGED imgVars
    /\ UNCHANGED harvestVars

\* GeminiService.buildAnalysisResult(parsed, input)
BuildAnalysisResult ==
    /\ pc = "start"
    /\ builder' = "buildAnalysisResult"
    /\ cssStage' = BAR_EnsureMinCss(BAR_AddCss(<<>>, extractedColors, 0))
    /\ colorPalette' = buildAnalysisResult(parsedColors, extractedColors)
    /\ pc' = "done"
    /\ UNCHANGED <<colorVars, scrapeVars, callVars, keywordVars, handlerVars>>
    /\ UNCHANGED <<extractedColors, parsedColors, iterations>>
    /\ UNCHANGED imgVars
    /\ UNCHANGED harvestVars

\* GeminiService.getFallbackAnalysisResult(input)
GetFallbackAnalysisResult ==
    /\ pc = "start"
    /\ builder' = "getFallbackAnalysisResult"
    /\ cssStage' = FB_EnsureMinCss(FB_AddCss(<<>>, extractedColors, 0))
    /\ colorPalette' = getFallbackAnalysisResult(extractedColors)
    /\ pc' = "done"
    /\ UNCHANGED <<colorVars, scrapeVars, callVars, keywordVars, handlerVars>>
    /\ UNCHANGED <<extractedColors, parsedColors, iterations>>
    /\ UNCHANGED imgVars
    /\ UNCHANGED harvestVars

NextPaletteB ==
    \/ BuildColorPalette
    \/ BuildAnalysisResult
    \/ GetFallbackAnalysisResult

SpecPaletteB == InitPaletteB /\ [][NextPaletteB]_vars

(***************************************************************************)
(* Inputs of complementTo16Colors.                                         *)
(***************************************************************************)
MaxHarvested == 3

HarvestCandidates ==
    { ColorPalette(<<"#", "1", "E", "4", "0", "A", "F">>, "css", "inline"),
      ColorPalette(<<"#", "2", "8", "4", "5", "A", "5">>, "css", "background"),
      ColorPalette(<<"#", "1", "0", "2", "0", "3", "0">>, "css", "stylesheet"),
      ColorPalette(<<"#", "3", "0", "3", "0", "3", "0">>, "css", "svg") }

\* harvests of more than four colours
LongHarvest ==
    << ColorPalette(<<"#", "1", "E", "4", "0", "A", "F">>, "css", "inline"),
       ColorPalette(<<"#", "3", "0", "3", "0", "3", "0">>, "css", "svg"),
       ColorPalette(<<"#", "B", "9", "1", "C", "1", "C">>, "css", "text"),
       ColorPalette(<<"#", "1", "0", "2", "0", "3", "0">>, "css", "stylesheet"),
       ColorPalette(<<"#", "0", "4", "7", "8", "5", "7">>, "css", "border"),
       ColorPalette(<<"#", "2", "8", "4", "5", "A", "5">>, "css", "background"),
       ColorPalette(<<"#", "7", "C", "2", "D", "1", "2">>, "css", "theme") >>

LongHarvests == {SubSeq(LongHarvest, 1, n) : n \in 5..Len(LongHarvest)}

InitPaletteA ==
    /\ pc = "start"
    /\ harvested \in SeqsUpTo(HarvestCandidates, MaxHarvested)
                       \cup LongHarvests
    /\ palette16 = <<>>
    /\ NoImages
    /\ NoPalette
    /\ NoColors
    /\ NoScrape
    /\ NoCalls
    /\ NoKeywords
    /\ NoHandler

\* ColorExtractor.complementTo16Colors(extractedColors)
ComplementTo16Colors ==
    /\ pc = "start"
    /\ \E down \in SUBSET RoundingTies(harvested) :
           palette16' = complementTo16Colors(harvested, down)
    /\ pc' = "done"
    /\ UNCHANGED <<colorVars, scrapeVars, callVars, keywordVars, handlerVars>>
    /\ UNCHANGED harvested
    /\ UNCHANGED imgVars
    /\ UNCHANGED paletteVars

NextPaletteA == ComplementTo16Colors

SpecPaletteA == InitPaletteA /\ [][NextPaletteA]_vars

(***************************************************************************)
(* Documents handed to extractColors, and literals handed to               *)
(* normalizeColor.                                                         *)
(***************************************************************************)
MaxColors == 3

MaxNormalize == 3

ColorSource(text, role) == [text |-> text, role |-> role]

hexAbc == <<"#", "a", "b", "c">>

hexBlueLower == <<"#", "3", "b", "8", "2", "f", "6">>

hexBlue == <<"#", "3", "B", "8", "2", "F", "6">>

hexWhite == <<"#", "f", "f", "f", "f", "f", "f">>

hexBlack == <<"#", "0", "0", "0", "0", "0", "0">>

hexMidGrey == <<"#", "9", "6", "9", "6", "9", "6">>

hexLightGrey == <<"#", "c", "8", "c", "8", "c", "8">>

hexNearBlack == <<"#", "0", "4", "0", "4", "0", "4">>

rgbBlue == <<"r", "g", "b", "(", "5", "9", ",", "1", "3", "0", ",",
             "2", "4", "6", ")">>

rgbaOutOfRange == <<"r", "g", "b", "a", "(", "3", "0", "0", ",", "0", ",",
                    "0", ",", "0", ".", "5", ")">>

namedRed == <<"r", "e", "d">>

ColorSources ==
    { ColorSource(hexWhite, "inline"),
      ColorSource(hexBlack, "stylesheet"),
      ColorSource(hexMidGrey, "background"),
      ColorSource(hexBlueLower, "inline"),
      ColorSource(hexBlue, "svg"),
      ColorSource(hexAbc, "theme"),
      ColorSource(rgbBlue, "text"),
      ColorSource(rgbaOutOfRange, "inline"),
      ColorSource(namedRed, "svg"),
      ColorSource(hexLightGrey, "border"),
      ColorSource(hexNearBlack, "external") }

InitColors ==
    /\ pc = "start"
    /\ styleColors \in SeqsUpTo(ColorSources, MaxColors)
    /\ basePalette = <<>>
    /\ normalized = <<>>
    /\ NoImages
    /\ NoPalette
    /\ NoHarvest
    /\ NoScrape
    /\ NoCalls
    /\ NoKeywords
    /\ NoHandler

\* ColorExtractor.extractColors($)
ExtractColors ==
    /\ pc = "start"
    /\ basePalette' = extractColors(styleColors)
    /\ pc' = "done"
    /\ UNCHANGED <<styleColors, normalized>>
    /\ UNCHANGED <<imgVars, paletteVars, harvestVars, scrapeVars, callVars,
                   keywordVars, handlerVars>>

\* ColorExtractor.normalizeColor(color) on the first literal of the document
NormalizeColor ==
    /\ pc = "start"
    /\ styleColors # <<>>
    /\ normalized' = <<normalizeColor(styleColors[1].text)>>
    /\ pc' = "normalized"
    /\ UNCHANGED <<styleColors, basePalette>>
    /\ UNCHANGED <<imgVars, paletteVars, harvestVars, scrapeVars, callVars,
                   keywordVars, handlerVars>>

\* ColorExtractor.normalizeColor(color) on the value it returned last
NormalizeAgain ==
    /\ pc = "normalized"
    /\ Len(normalized) < MaxNormalize
    /\ normalized[Len(normalized)] # Null
    /\ normalized' = Append(normalized,
                            normalizeColor(normalized[Len(normalized)]))
    /\ UNCHANGED <<pc, styleColors, basePalette>>
    /\ UNCHANGED <<imgVars, paletteVars, harvestVars, scrapeVars, callVars,
                   keywordVars, handlerVars>>

NextColors ==
    \/ ExtractColors
    \/ NormalizeColor
    \/ NormalizeAgain

SpecColors == InitColors /\ [][NextColors]_vars

(***************************************************************************)
(* WebScraper.scrapeUrl(url).  The argument is given by what new URL(url)  *)
(* makes of it: parses is FALSE when the constructor throws, protocol and  *)
(* hostname are the parsed fields (the hostname as characters).  The call  *)
(* runs up to its await in one step; the request then ends by a response,  *)
(* by an error, or goes on by a redirect that axios follows.               *)
(***************************************************************************)
MAX_REDIRECTS == 3

ParsedUrl(parses, protocol, hostname) ==
    [parses |-> parses, protocol |-> protocol, hostname |-> hostname]

hostLocalhost == <<"l", "o", "c", "a", "l", "h", "o", "s", "t">>

hostLoopback == <<"1", "2", "7", ".", "0", ".", "0", ".", "1">>

hostTen == <<"1", "0", ".", "0", ".", "0", ".", "5">>

host172 == <<"1", "7", "2", ".", "1", "6", ".", "0", ".", "1">>

host192168 == <<"1", "9", "2", ".", "1", "6", "8", ".", "1", ".", "1">>

hostPublic == <<"s", "h", "o", "p", ".", "e", "x", "a", "m", "p", "l", "e">>

host192169 == <<"1", "9", "2", ".", "1", "6", "9", ".", "1", ".", "1">>

host100 == <<"1", "0", "0", ".", "1", ".", "2", ".", "3">>

hostIpv6Loopback == <<"[", ":", ":", "1", "]">>

ScrapeHosts == {hostLocalhost, hostLoopback, hostTen, host172, host192168,
                hostPublic, host192169, host100, hostIpv6Loopback}

ScrapeProtocols == {"http:", "https:", "ftp:", "file:"}

ScrapeUrls ==
    {ParsedUrl(TRUE, p, h) : p \in ScrapeProtocols, h \in ScrapeHosts}
        \cup {ParsedUrl(FALSE, "", <<>>)}

\* error.message of what the request can reject with
RequestErrors ==
    {"timeout of 5000ms exceeded",
     "maxContentLength size of 500000 exceeded",
     "getaddrinfo ENOTFOUND",
     "Request failed with status code 500"}

\* the error thrown out of the try block has this message
Failed(message) == <<"Failed to scrape URL: ", message>>

\* the condition of the SSRF protection
isInternalHost(hostname) ==
    \/ hostname = hostLocalhost
    \/ hostname = hostLoopback
    \/ startsWith(hostname, <<"1", "9", "2", ".", "1", "6", "8", ".">>)
    \/ startsWith(hostname, <<"1", "0", ".">>)
    \/ startsWith(hostname, <<"1", "7", "2", ".">>)

\* hostnames a 3xx response may name in its Location header
RedirectHosts == {hostPublic, hostLoopback, hostTen}

InitScrape ==
    /\ pc = "start"
    /\ targetUrl \in ScrapeUrls
    /\ attempts = 0
    /\ requests = 0
    /\ outcome = <<>>
    /\ contacted = <<>>
    /\ NoImages
    /\ NoPalette
    /\ NoHarvest
    /\ NoColors
    /\ NoCalls
    /\ NoKeywords
    /\ NoHandler

\* a scrapeUrl that sends the request without the protocol and SSRF tests
ScrapeUrlCheckAfter ==
    /\ pc = "start"
    /\ IF ~targetUrl.parses
       THEN /\ outcome' = Failed("Invalid URL")
            /\ pc' = "failed"
            /\ UNCHANGED <<attempts, requests, contacted>>
       ELSE /\ attempts' = attempts + 1
            /\ requests' = requests + 1
            /\ contacted' = Append(contacted, targetUrl.hostname)
            /\ pc' = "awaiting"
            /\ UNCHANGED outcome
    /\ UNCHANGED targetUrl
    /\ UNCHANGED <<imgVars, paletteVars, harvestVars, colorVars, callVars,
                   keywordVars, handlerVars>>

\* scrapeUrl from its entry to the await of axios.get
ScrapeUrl ==
    /\ pc = "start"
    /\ IF ~targetUrl.parses
       THEN /\ outcome' = Failed("Invalid URL")
            /\ pc' = "failed"
            /\ UNCHANGED <<attempts, requests, contacted>>
       ELSE IF targetUrl.protocol \notin {"http:", "https:"}
       THEN /\ outcome' =
                 Failed("Invalid protocol. Only HTTP and HTTPS are allowed.")
            /\ pc' = "failed"
            /\ UNCHANGED <<attempts, requests, contacted>>
       ELSE IF isInternalHost(targetUrl.hostname)
       THEN /\ outcome' = Failed("Access to internal IPs is not allowed.")
            /\ pc' = "failed"
            /\ UNCHANGED <<attempts, requests, contacted>>
       ELSE /\ attempts' = attempts + 1
            /\ requests' = requests + 1
            /\ contacted' = Append(contacted, targetUrl.hostname)
            /\ pc' = "awaiting"
            /\ UNCHANGED outcome
    /\ UNCHANGED targetUrl
    /\ UNCHANGED <<imgVars, paletteVars, harvestVars, colorVars, callVars,
                   keywordVars, handlerVars>>

\* the server answers 3xx and axios requests the Location (maxRedirects: 3)
FollowRedirect ==
    /\ pc = "awaiting"
    /\ requests < 1 + MAX_REDIRECTS
    /\ requests' = requests + 1
    /\ \E location \in RedirectHosts \cup {targetUrl.hostname} :
           contacted' = Append(contacted, location)
    /\ UNCHANGED <<pc, targetUrl, attempts, outcome>>
    /\ UNCHANGED <<imgVars, paletteVars, harvestVars, colorVars, callVars,
                   keywordVars, handlerVars>>

\* axios.get resolves; the body is parsed and returned
ResponseArrives ==
    /\ pc = "awaiting"
    /\ outcome' = <<"returned">>
    /\ pc' = "done"
    /\ UNCHANGED <<targetUrl, attempts, requests, contacted>>
    /\ UNCHANGED <<imgVars, paletteVars, harvestVars, colorVars, callVars,
                   keywordVars, handlerVars>>

\* a catch block that tries the request once more before giving up
RequestFailsRetry ==
    /\ pc = "awaiting"
    /\ IF attempts < 2
       THEN /\ attempts' = attempts + 1
            /\ requests' = requests + 1
            /\ contacted' = Append(contacted, targetUrl.hostname)
            /\ UNCHANGED <<pc, outcome>>
       ELSE /\ \E message \in RequestErrors : outcome' = Failed(message)
            /\ pc' = "failed"
            /\ UNCHANGED <<attempts, requests, contacted>>
    /\ UNCHANGED targetUrl
    /\ UNCHANGED <<imgVars, paletteVars, harvestVars, colorVars, callVars,
                   keywordVars, handlerVars>>

\* axios.get rejects; the catch block rethrows
RequestFails ==
    /\ pc = "awaiting"
    /\ \E message \in RequestErrors \cup
                       (IF requests = 1 + MAX_REDIRECTS
                        THEN {"Maximum number of redirects exceeded"}
                        ELSE {}) :
           outcome' = Failed(message)
    /\ pc' = "failed"
    /\ UNCHANGED <<targetUrl, attempts, requests, contacted>>
    /\ UNCHANGED <<imgVars, paletteVars, harvestVars, colorVars, callVars,
                   keywordVars, handlerVars>>

NextScrape ==
    \/ ScrapeUrl
    \/ FollowRedirect
    \/ ResponseArrives
    \/ RequestFails

SpecScrape == InitScrape /\ [][NextScrape]_vars

(***************************************************************************)
(* Extraction calls running interleaved on one WebScraper and one          *)
(* ColorExtractor.  A call record holds the arguments of the call and its  *)
(* local variables: lg is logos / seen / idCounter of extractLogos, st is  *)
(* images / seen / idCounter of extractImages or colors / seenHex of       *)
(* extractColors.  Neither class has a mutable field.  A step is one       *)
(* iteration of a loop of one call.                                        *)
(***************************************************************************)
MaxCalls == 2

ImagesCall(d, og, base) ==
    [kind |-> "images", d |-> d, og |-> og, base |-> base,
     at |-> "logos", i |-> 1,
     lg |-> [logos |-> <<>>, seen |-> {}, idCounter |-> 0],
     st |-> [images |-> <<>>, seen |-> {}, idCounter |-> 0],
     result |-> <<>>]

ColorsCall(d) ==
    [kind |-> "colors", d |-> d, og |-> NoUrl, base |-> NoUrl,
     at |-> "harvest", i |-> 1,
     lg |-> [logos |-> <<>>, seen |-> {}, idCounter |-> 0],
     st |-> [colors |-> <<>>, seenHex |-> {}],
     result |-> <<>>]

LpBase == Url("abs", ShopOrigin, <<"lp", "index.html">>)

CallInputs ==
    { ImagesCall(<<Img(relLogo, NoUrl, "Company Logo", "", "header", 200, 0, ""),
                   Img(relHero, NoUrl, "", "", "body", 0, 0, "")>>,
                 relHero, LpBase),
      ImagesCall(<<Img(relHero, NoUrl, "", "", "body", 0, 0, ""),
                   Img(relBanner, NoUrl, "", "", "nav", 0, 0, "")>>,
                 NoUrl, LpBase),
      ImagesCall(<<Img(relLogo, NoUrl, "", "site-logo", "body", 0, 0, "hero"),
                   Img(relBanner, NoUrl, "Shoe", "", "body", 0, 600, "")>>,
                 absLogo, LpBase),
      ColorsCall(<<ColorSource(hexBlueLower, "inline"),
                   ColorSource(hexAbc, "theme")>>),
      ColorsCall(<<ColorSource(hexBlue, "svg"),
                   ColorSource(hexMidGrey, "background"),
                   ColorSource(rgbBlue, "text")>>) }

\* $(combinedSelector).slice(0, 10)
LogoCandidates(d) ==
    LET matched == SelectSeq2(d, 1)
    IN  SubSeq(matched, 1, Min(Len(matched), LOGO_SCAN))

\* the colour sources in the order the six stages read them
RECURSIVE HarvestOrder(_, _)
HarvestOrder(d, n) ==
    IF n > 6 THEN <<>> ELSE StageSources(d, n, 1) \o HarvestOrder(d, n + 1)

InitInterleaved ==
    /\ pc = "calls"
    /\ calls \in [1..MaxCalls -> CallInputs]
    /\ NoImages
    /\ NoPalette
    /\ NoHarvest
    /\ NoColors
    /\ NoScrape
    /\ NoKeywords
    /\ NoHandler

\* one iteration of the loop of extractLogos in call c
LogosStepOf(cs, c) ==
    LET call == cs[c]
        els  == LogoCandidates(call.d)
    IN  IF call.i > Len(els) \/ Len(call.lg.logos) >= LOGO_LIMIT
        THEN [call EXCEPT !.at = "og"]
        ELSE [call EXCEPT !.lg = LogoStep(call.lg, els[call.i], call.base),
                          !.i = call.i + 1]

\* the og:image block of extractImages in call c
OgStepOf(cs, c) ==
    LET call == cs[c]
    IN  [call EXCEPT !.st = OgStep(call.st, call.og, call.base),
                     !.at = "imgs", !.i = 1]

\* an <img> loop whose seen set belongs to the scraper, not to the call
ImgsStepSharedSeen(cs, c) ==
    LET call == cs[c]
        els  == SubSeq(call.d, 1, Min(Len(call.d), IMG_SCAN))
        shared == UNION {cs[k].st.seen :
                           k \in {j \in DOMAIN cs : cs[j].kind = "images"}}
    IN  IF call.i > Len(els) \/ Len(call.st.images) >= MAX_IMAGES
        THEN [call EXCEPT !.at = "merge"]
        ELSE [call EXCEPT
                !.st = ImgStep([call.st EXCEPT !.seen = shared],
                               els[call.i], call.base,
                               {call.lg.logos[k].url :
                                   k \in DOMAIN call.lg.logos}),
                !.i = call.i + 1]

\* one iteration of the <img> loop of extractImages in call c
ImgsStepOf(cs, c) ==
    LET call == cs[c]
        els  == SubSeq(call.d, 1, Min(Len(call.d), IMG_SCAN))
    IN  IF call.i > Len(els) \/ Len(call.st.images) >= MAX_IMAGES
        THEN [call EXCEPT !.at = "merge"]
        ELSE [call EXCEPT
                !.st = ImgStep(call.st, els[call.i], call.base,
                               {call.lg.logos[k].url :
                                   k \in DOMAIN call.lg.logos}),
                !.i = call.i + 1]

\* the merge, the sort and the slice of extractImages in call c
FinishImagesOf(cs, c) ==
    LET call   == cs[c]
        merged == MergeLogos(call.st.images, call.st.seen, call.lg.logos, 1)
        sorted == SortImages(merged, Len(merged))
    IN  [call EXCEPT !.result = SubSeq(sorted, 1,
                                       Min(Len(sorted), MAX_IMAGES)),
                     !.at = "done"]

\* one colour source of extractColors in call c, or its return
HarvestStepOf(cs, c) ==
    LET call == cs[c]
        srcs == HarvestOrder(call.d, 1)
    IN  IF call.i > Len(srcs)
        THEN [call EXCEPT !.result = Slice(call.st.colors, TARGET_COLORS),
                          !.at = "done"]
        ELSE [call EXCEPT !.st = ColorStep(call.st, srcs[call.i]),
                          !.i = call.i + 1]

LogosStep ==
    /\ \E c \in DOMAIN calls :
          /\ calls[c].at = "logos"
          /\ calls' = [calls EXCEPT ![c] = LogosStepOf(calls, c)]
    /\ UNCHANGED pc
    /\ UNCHANGED <<imgVars, paletteVars, harvestVars, colorVars, scrapeVars,
                 keywordVars, handlerVars>>

OgImageStep ==
    /\ \E c \in DOMAIN calls :
          /\ calls[c].at = "og"
          /\ calls' = [calls EXCEPT ![c] = OgStepOf(calls, c)]
    /\ UNCHANGED pc
    /\ UNCHANGED <<imgVars, paletteVars, harvestVars, colorVars, scrapeVars,
                 keywordVars, handlerVars>>

ImgsStep ==
    /\ \E c \in DOMAIN calls :
          /\ calls[c].at = "imgs"
          /\ calls' = [calls EXCEPT ![c] = ImgsStepOf(calls, c)]
    /\ UNCHANGED pc
    /\ UNCHANGED <<imgVars, paletteVars, harvestVars, colorVars, scrapeVars,
                 keywordVars, handlerVars>>

FinishImages ==
    /\ \E c \in DOMAIN calls :
          /\ calls[c].at = "merge"
          /\ calls' = [calls EXCEPT ![c] = FinishImagesOf(calls, c)]
    /\ UNCHANGED pc
    /\ UNCHANGED <<imgVars, paletteVars, harvestVars, colorVars, scrapeVars,
                 keywordVars, handlerVars>>

HarvestStep ==
    /\ \E c \in DOMAIN calls :
          /\ calls[c].at = "harvest"
          /\ calls' = [calls EXCEPT ![c] = HarvestStepOf(calls, c)]
    /\ UNCHANGED pc
    /\ UNCHANGED <<imgVars, paletteVars, harvestVars, colorVars, scrapeVars,
                 keywordVars, handlerVars>>

NextInterleaved ==
    \/ LogosStep
    \/ OgImageStep
    \/ ImgsStep
    \/ FinishImages
    \/ HarvestStep

SpecInterleaved == InitInterleaved /\ [][NextInterleaved]_vars

(***************************************************************************)
(* Properties of extractImages                                             *)
(***************************************************************************)

\* C1: the returned list holds no two entries with the same resolved url
C1_UrlsPairwiseDistinct ==
    pc = "done" =>
        \A i, j \in DOMAIN images : i # j => images[i].url # images[j].url

\* C2: every logo precedes every non-logo, and inside the logo group and
\* inside the non-logo group the scores never increase from front to back
C2_LogosFirstThenScore ==
    pc = "done" =>
        \A i, j \in DOMAIN images :
            i < j =>
                /\ images[j].isLogo => images[i].isLogo
                /\ images[i].isLogo = images[j].isLogo
                      => images[i].score >= images[j].score

\* a logo of lower score is returned in front of a non-logo, and a group
\* holds two entries of different score
C2_Witness ==
    /\ pc = "done"
    /\ \E i, j \in DOMAIN images :
            i < j /\ images[i].isLogo /\ ~images[j].isLogo
                  /\ images[i].score < images[j].score
    /\ \E i, j \in DOMAIN images :
            i < j /\ images[i].isLogo = images[j].isLogo
                  /\ images[i].score > images[j].score

\* C3: no returned entry carries an alt text in the placeholder language
C3_NoPlaceholderAlt ==
    pc = "done" => \A i \in DOMAIN images : ~isPlaceholderAlt(images[i].alt)

\* C4: no returned url matches the placeholder URL pattern, whichever of
\* og:image, the <img> pass or the logo pre-pass produced the entry
C4_NoPlaceholderUrl ==
    pc = "done" => \A i \in DOMAIN images : ~isPlaceholderImage(images[i].url)

\* og:image and an <img> inside a logo container both resolve to a
\* placeholder URL, and the call still returned something
C4_Witness ==
    /\ pc = "done"
    /\ ogImage # NoUrl
    /\ isPlaceholderImage(makeAbsoluteUrl(ogImage, baseUrl))
    /\ \E k \in DOMAIN doc :
            /\ matchesLogoSelector(doc[k])
            /\ doc[k].src # NoUrl
            /\ isPlaceholderImage(makeAbsoluteUrl(doc[k].src, baseUrl))
    /\ images # <<>>

\* og:image is present, resolves and is not a placeholder
OgAccepted ==
    /\ ogImage # NoUrl
    /\ makeAbsoluteUrl(ogImage, baseUrl) # NoUrl
    /\ ~isPlaceholderImage(makeAbsoluteUrl(ogImage, baseUrl))

IsOgEntry(im) ==
    /\ im.alt = "OG Image"
    /\ im.url = makeAbsoluteUrl(ogImage, baseUrl)
    /\ im.score = 1000
    /\ im.width = 1200
    /\ im.height = 630
    /\ ~im.isLogo

\* C15: with an accepted og:image the result is all logos, then the
\* og:image entry (score 1.0, 1200x630) as first non-logo, then the other
\* non-logos by descending score, 30 entries at most; no other non-logo,
\* whatever its score, stands before the og:image entry
C15_OgFirstNonLogo ==
    pc = "done" /\ OgAccepted =>
        /\ Len(images) <= MAX_IMAGES
        /\ \E k \in DOMAIN images :
              /\ IsOgEntry(images[k])
              /\ \A i \in DOMAIN images :
                     /\ i < k => images[i].isLogo
                     /\ i > k => ~images[i].isLogo
              /\ \A i, j \in DOMAIN images :
                     k < i /\ i < j => images[i].score >= images[j].score

\* a logo, then the og:image entry, then another non-logo of score 1.0
C15_Witness ==
    /\ pc = "done"
    /\ OgAccepted
    /\ \E k \in DOMAIN images :
           /\ IsOgEntry(images[k])
           /\ k > 1
           /\ images[k - 1].isLogo
           /\ k < Len(images)
           /\ images[k + 1].score = 1000

\* what the og:image block and the <img> pass collect, before the merge
GeneralPass ==
    LET logos == extractLogos(doc, baseUrl)
    IN  ImgLoop(OgStep([images |-> <<>>, seen |-> {}, idCounter |-> 0],
                       ogImage, baseUrl),
                SubSeq(doc, 1, Min(Len(doc), IMG_SCAN)), 1, baseUrl,
                {logos[i].url : i \in DOMAIN logos}).images

\* C16: the result never has more than 30 entries; pre-pass logos are
\* appended only while the count is below 30, so that no entry collected
\* before the merge is pushed out of the result
C16_AtMost30 ==
    pc = "done" =>
        /\ Len(images) <= MAX_IMAGES
        /\ \A g \in Range(GeneralPass) : g \in Range(images)

\* the <img> pass stopped at 30 entries and the pre-pass had found a logo
\* that the merge left out
C16_Witness ==
    /\ pc = "done"
    /\ Len(GeneralPass) = MAX_IMAGES
    /\ Len(images) = MAX_IMAGES
    /\ \E l \in Range(extractLogos(doc, baseUrl)) : l \notin Range(images)

\* C17: the ids of one result are pairwise distinct, also when it mixes
\* entries of the general pass with entries of the logo pre-pass, whose
\* counters both start at 0
C17_IdsDistinct ==
    pc = "done" =>
        \A i, j \in DOMAIN images : i # j => images[i].id # images[j].id

\* the result holds entry 0 of the general pass and entry 0 of the pre-pass
C17_Witness ==
    /\ pc = "done"
    /\ \E i, j \in DOMAIN images :
           /\ images[i].id = <<"auto", 0>>
           /\ images[j].id = <<"logo", 0>>

\* the source the general pass takes for an element
ImageSrcOf(e) ==
    IF e.src # NoUrl /\ ~isPlaceholderImage(e.src) THEN e.src
    ELSE OrElse(e.dataSrc, e.dataLazySrc)

\* the entry was made by the general pass from this element
MadeFrom(im, e) ==
    /\ im.id[1] = "auto"
    /\ im.alt # "OG Image"
    /\ im.url = makeAbsoluteUrl(ImageSrcOf(e), baseUrl)
    /\ im.alt = e.alt
    /\ im.width = e.width
    /\ im.height = e.height

FoundByPrePass(e) ==
    \E l \in Range(extractLogos(doc, baseUrl)) :
        l.url = makeAbsoluteUrl(ImageSrcOf(e), baseUrl)

LogoPatternMatches(e) ==
    \/ \E w \in UrlWords(ImageSrcOf(e)) : toLowerCase(w) \in LogoPatternWords
    \/ toLowerCase(e.alt) \in LogoPatternWords
    \/ e.class \in LogoPatternWords
    \/ e.id \in LogoPatternWords

InHeaderOrNav(e) == e.container \in {"header", "nav"}

\* C20 as stated: an entry of the general pass is a logo exactly when the
\* pre-pass found its URL, or a logo pattern matches its src, alt, class or
\* id, or it is inside a header or nav and its width is <= 300 or its
\* height is <= 150, an undeclared dimension counting as 0
C20_LogoClassification ==
    pc = "done" =>
        \A i \in DOMAIN images :
            (images[i].id[1] = "auto" /\ images[i].alt # "OG Image") =>
                \E k \in DOMAIN doc :
                    /\ MadeFrom(images[i], doc[k])
                    /\ images[i].isLogo =
                          (\/ FoundByPrePass(doc[k])
                           \/ LogoPatternMatches(doc[k])
                           \/ /\ InHeaderOrNav(doc[k])
                              /\ \/ doc[k].width <= 300
                                 \/ doc[k].height <= 150)

\* C20 amended: as above, but the width counts only when it is declared
\* and positive (1..300), and the height likewise (1..150)
C20_LogoClassificationDeclared ==
    pc = "done" =>
        \A i \in DOMAIN images :
            (images[i].id[1] = "auto" /\ images[i].alt # "OG Image") =>
                \E k \in DOMAIN doc :
                    /\ MadeFrom(images[i], doc[k])
                    /\ images[i].isLogo =
                          (\/ FoundByPrePass(doc[k])
                           \/ LogoPatternMatches(doc[k])
                           \/ /\ InHeaderOrNav(doc[k])
                              /\ \/ doc[k].width \in 1..300
                                 \/ doc[k].height \in 1..150)

\* two entries made from <img> elements inside a nav that no pattern
\* matches and the pre-pass did not find: the one without dimensions is
\* not a logo, the one with a declared height of at most 150 is
C20_Witness ==
    /\ pc = "done"
    /\ \E i, j \in DOMAIN images, k, m \in DOMAIN doc :
           /\ MadeFrom(images[i], doc[k])
           /\ MadeFrom(images[j], doc[m])
           /\ InHeaderOrNav(doc[k]) /\ InHeaderOrNav(doc[m])
           /\ ~LogoPatternMatches(doc[k]) /\ ~LogoPatternMatches(doc[m])
           /\ ~FoundByPrePass(doc[k]) /\ ~FoundByPrePass(doc[m])
           /\ doc[k].width = 0 /\ doc[k].height = 0
           /\ ~images[i].isLogo
           /\ doc[m].height \in 1..150
           /\ images[j].isLogo

(***************************************************************************)
(* Properties of the palette assembly                                      *)
(***************************************************************************)
DefaultHexes == Range(getDefaultColors)

HexesDistinct(p) == \A i, j \in DOMAIN p : i # j => p[i].hex # p[j].hex

\* C5: each builder returns exactly 20 entries for every combination of
\* CSS colours and AI colours
C5_Exactly20 ==
    pc = "done" /\ builder # "none" => Len(colorPalette) = TARGET_TOTAL

\* C6: no palette returned by a builder holds two entries with the same hex
C6_NoDuplicateHex ==
    pc = "done" /\ builder # "none" => HexesDistinct(colorPalette)

\* C7: with zero CSS colours and zero AI colours the palette has exactly 20
\* entries, each hex is one of the fixed default colours, no hex repeats
C7_AllDefaults ==
    pc = "done" /\ builder # "none" /\ extractedColors = <<>> /\ parsedColors = <<>>
        => /\ Len(colorPalette) = TARGET_TOTAL
           /\ \A i \in DOMAIN colorPalette :
                  colorPalette[i].hex \in DefaultHexes
           /\ HexesDistinct(colorPalette)

\* C10: when at least one CSS colour is supplied, the palette holds at least
\* 3 'css' entries before any AI or default colour is appended, and so does
\* the returned palette
C10_MinThreeCss ==
    pc = "done" /\ builder # "none" /\ extractedColors # <<>>
        => /\ CssCount(cssStage) >= MIN_CSS_COLORS
           /\ CssCount(colorPalette) >= MIN_CSS_COLORS

(***************************************************************************)
(* Properties of complementTo16Colors                                      *)
(***************************************************************************)

\* C8: for every list of pairwise-distinct harvested colours, the empty
\* list included, complementTo16Colors returns exactly 16 entries
C8_Exactly16 ==
    pc = "done" /\ HexesDistinct(harvested)
        => Len(palette16) = TARGET_COLORS

\* a generated variation carries the hex of a default colour, so the
\* default fill had to skip that default and still reached 16
C8_Witness ==
    /\ pc = "done"
    /\ HexesDistinct(harvested)
    /\ harvested # <<>>
    /\ \E i \in DOMAIN palette16 :
           /\ palette16[i].role_hint = "variation"
           /\ palette16[i].hex \in {getDefaultPalette[k].hex :
                                      k \in DOMAIN getDefaultPalette}
    /\ \E i \in DOMAIN palette16 :
           palette16[i] \in Range(getDefaultPalette)
    /\ Len(palette16) = TARGET_COLORS

\* C9: when the harvested hex values are pairwise distinct, no two entries
\* of the returned palette share a hex
C9_NoDuplicateHex16 ==
    pc = "done" /\ HexesDistinct(harvested) => HexesDistinct(palette16)

\* variations were generated, one of them repeated an earlier hex and was
\* dropped (fewer variations kept than generated), a default was skipped
C9_Witness ==
    /\ pc = "done"
    /\ Len(harvested) = 1
    /\ HexesDistinct(palette16)
    /\ Cardinality({i \in DOMAIN palette16 :
                       palette16[i].role_hint = "variation"}) < 15
    /\ \E k \in DOMAIN getDefaultPalette :
           /\ SomeHex(harvested, getDefaultPalette[k].hex)
           /\ \E i \in DOMAIN palette16 :
                  palette16[i] \in Range(getDefaultPalette)

(***************************************************************************)
(* Properties of the hex values                                            *)
(***************************************************************************)
WellFormedHex(hex) ==
    /\ Len(hex) = 7
    /\ hex[1] = "#"
    /\ \A i \in 2..7 : \E k \in 1..16 : UpperHexChars[k] = hex[i]

\* C11: every entry of a palette returned by extractColors, by
\* complementTo16Colors or by a builder of the 20-colour palette has a hex
\* that is '#' followed by exactly six characters of 0-9 and A-F, whatever
\* the harvested literals and the AI colour objects are
C11_HexWellFormed ==
    pc = "done" =>
        /\ \A i \in DOMAIN basePalette : WellFormedHex(basePalette[i].hex)
        /\ \A i \in DOMAIN palette16 : WellFormedHex(palette16[i].hex)
        /\ \A i \in DOMAIN colorPalette : WellFormedHex(colorPalette[i].hex)

(***************************************************************************)
(* Properties of extractColors and normalizeColor                          *)
(***************************************************************************)
Rgb(hex) == hexToRgb(hex)

\* the document holds a source that spells this colour as a 6-digit hex
Harvests(hex) ==
    \E i \in DOMAIN styleColors : toUpperCase(styleColors[i].text) = hex

\* C12: the base palette holds no colour with all channels above 250, none
\* with all channels below 5, and none whose saturation (max-min)/max is
\* below 0.05 while max lies strictly between 50 and 200; #FFFFFF, #000000
\* and #969696 are rejected and #3B82F6 is accepted
C12_ValidityFilter ==
    pc = "done" =>
        /\ \A i \in DOMAIN basePalette :
              LET c  == Rgb(basePalette[i].hex)
                  hi == Max(c.r, Max(c.g, c.b))
                  lo == Min(c.r, Min(c.g, c.b))
              IN  /\ c.ok
                  /\ ~(c.r > 250 /\ c.g > 250 /\ c.b > 250)
                  /\ ~(c.r < 5 /\ c.g < 5 /\ c.b < 5)
                  /\ ~(20 * (hi - lo) < hi /\ hi > 50 /\ hi < 200)
        /\ ~SomeHex(basePalette, toUpperCase(hexWhite))
        /\ ~SomeHex(basePalette, hexBlack)
        /\ ~SomeHex(basePalette, hexMidGrey)
        /\ Harvests(hexBlue) => SomeHex(basePalette, hexBlue)

\* a document with the mid-grey, a rejected extreme and the blue, of which
\* only the blue is returned
C12_Witness ==
    /\ pc = "done"
    /\ Harvests(hexMidGrey)
    /\ Harvests(toUpperCase(hexWhite)) \/ Harvests(hexBlack)
    /\ Harvests(hexBlue)
    /\ basePalette # <<>>
    /\ \A i \in DOMAIN basePalette : basePalette[i].hex = hexBlue

\* C13: normalizing a value that normalizeColor returned gives the same
\* value again, a 6-digit uppercase hex is returned unchanged, #abc gives
\* #AABBCC and rgb(59,130,246) gives #3B82F6
C13_NormalizeIdempotent ==
    pc = "normalized" =>
        /\ \A i \in DOMAIN normalized :
              i > 1 => normalized[i] = normalized[i - 1]
        /\ styleColors[1].text = hexBlue => normalized[1] = hexBlue
        /\ styleColors[1].text = hexAbc
              => normalized[1] = <<"#", "A", "A", "B", "B", "C", "C">>
        /\ styleColors[1].text = rgbBlue => normalized[1] = hexBlue

(***************************************************************************)
(* Properties of scrapeUrl                                                 *)
(***************************************************************************)
SsrfBlocked == Failed("Access to internal IPs is not allowed.")

InvalidProtocol == Failed("Invalid protocol. Only HTTP and HTTPS are allowed.")

\* the hostname is localhost or 127.0.0.1 or starts with 10., 172. or
\* 192.168.
NamedInternal(h) ==
    \/ h \in {hostLocalhost, hostLoopback}
    \/ \E n \in 1..Len(h) : SubSeq(h, 1, n) \in
          {<<"1", "0", ".">>, <<"1", "7", "2", ".">>,
           <<"1", "9", "2", ".", "1", "6", "8", ".">>}

\* C14 as stated: every URL with such a hostname fails with the SSRF-blocked
\* error, every URL with another protocol than http or https fails with the
\* invalid-protocol error, and no request is issued in either case
C14_BlockedBeforeRequest ==
    /\ targetUrl.parses /\ NamedInternal(targetUrl.hostname)
          => /\ requests = 0
             /\ pc # "start" => outcome = SsrfBlocked
    /\ targetUrl.parses /\ targetUrl.protocol \notin {"http:", "https:"}
          => /\ requests = 0
             /\ pc # "start" => outcome = InvalidProtocol

\* C14 amended: a URL with another protocol than http or https fails with
\* the invalid-protocol error, an http or https URL with such a hostname
\* fails with the SSRF-blocked error, and no request is issued in either case
C14_BlockedBeforeRequestHttp ==
    /\ targetUrl.parses /\ NamedInternal(targetUrl.hostname)
       /\ targetUrl.protocol \in {"http:", "https:"}
          => /\ requests = 0
             /\ pc # "start" => outcome = SsrfBlocked
    /\ targetUrl.parses /\ targetUrl.protocol \notin {"http:", "https:"}
          => /\ requests = 0
             /\ pc # "start" => outcome = InvalidProtocol

\* the call for http://127.0.0.1 has ended with the SSRF-blocked error
C14_Witness ==
    /\ pc = "failed"
    /\ targetUrl = ParsedUrl(TRUE, "http:", hostLoopback)
    /\ outcome = SsrfBlocked
    /\ requests = 0

\* C18: a call makes at most one fetch attempt, and a call that has failed
\* made no attempt after the one that failed
C18_SingleAttempt ==
    /\ [](attempts <= 1)
    /\ [][pc = "failed" => attempts' = attempts /\ requests' = requests]_vars

\* the one request of a call has failed and the call has ended in failure
C18_Witness ==
    /\ pc = "failed"
    /\ attempts = 1
    /\ outcome = Failed("timeout of 5000ms exceeded")

(***************************************************************************)
(* Properties of interleaved calls                                         *)
(***************************************************************************)

\* C19: a call that ran interleaved with another call on the same
\* instances returns what it returns when it runs alone
C19_CallsIndependent ==
    \A c \in DOMAIN calls :
        calls[c].at = "done" =>
            calls[c].result =
                IF calls[c].kind = "images"
                THEN extractImages(calls[c].d, calls[c].og, calls[c].base)
                ELSE extractColors(calls[c].d)

\* one extractImages call has returned while another one, which had
\* already put the same src into its own seen set, is still in its loop
C19_Witness ==
    \E c, e \in DOMAIN calls :
        /\ c # e
        /\ calls[c].kind = "images" /\ calls[e].kind = "images"
        /\ calls[c].d # calls[e].d
        /\ calls[c].at = "done"
        /\ calls[c].result # <<>>
        /\ calls[e].at = "imgs"
        /\ calls[e].st.seen \cap calls[c].st.seen # {}

(***************************************************************************)
(* The brightness-variation loop of the three palette builders, one        *)
(* execution of the loop body per step.                                    *)
(***************************************************************************)
unparseableCss == <<"r", "e", "d">>

MinCssCandidates ==
    CssCandidates \cup { unparseableCss, hexWhite }

Builders ==
    {"buildColorPalette", "buildAnalysisResult", "getFallbackAnalysisResult"}

\* the palette when the builder reaches its "minimum 3 CSS colours" test
CssOnEntry(b, cssColors) ==
    CASE b = "buildColorPalette" -> BCP_AddCss(<<>>, cssColors, 0)
      [] b = "buildAnalysisResult" -> BAR_AddCss(<<>>, cssColors, 0)
      [] OTHER -> FB_AddCss(<<>>, cssColors, 0)

\* the argument of adjustBrightness in the loop body of builder b
VariationAmount(b, palette, cssCount) ==
    IF b = "buildAnalysisResult"
    THEN (Len(palette) - cssCount + 1) * 25
    ELSE Len(palette) * 25

InitMinCss ==
    /\ pc = "start"
    /\ extractedColors \in SeqsUpTo(MinCssCandidates, MaxCss)
    /\ parsedColors = <<>>
    /\ builder = "none"
    /\ cssStage = <<>>
    /\ colorPalette = <<>>
    /\ iterations = 0
    /\ NoImages
    /\ NoHarvest
    /\ NoColors
    /\ NoScrape
    /\ NoCalls
    /\ NoKeywords
    /\ NoHandler

\* the builder up to its test "palette.length > 0 && palette.length < 3"
EnterBuilder ==
    /\ pc = "start"
    /\ \E b \in Builders :
         LET palette == CssOnEntry(b, extractedColors)
         IN  /\ builder' = b
             /\ cssStage' = palette
             /\ pc' = IF Len(palette) > 0 /\ Len(palette) < MIN_CSS_COLORS
                      THEN "loop" ELSE "after"
    /\ UNCHANGED <<extractedColors, parsedColors, colorPalette, iterations>>
    /\ UNCHANGED <<imgVars, harvestVars, colorVars, scrapeVars, callVars,
                   keywordVars, handlerVars>>

\* a loop body whose collision branch does not leave the loop
MinCssIterationNoBreak ==
    /\ pc = "loop"
    /\ CssCount(cssStage) < MIN_CSS_COLORS
    /\ LET cssCount == Len(CssOnEntry(builder, extractedColors))
           variation == adjustBrightness(
                            cssStage[1].hex,
                            VariationAmount(builder, cssStage, cssCount))
       IN  IF ~SomeHex(cssStage, variation)
           THEN cssStage' = Append(cssStage,
                                   ColorPalette(variation, "css",
                                                "css_variation"))
           ELSE cssStage' = cssStage
    /\ pc' = "loop"
    /\ iterations' = iterations + 1
    /\ UNCHANGED <<extractedColors, parsedColors, builder, colorPalette>>
    /\ UNCHANGED <<imgVars, harvestVars, colorVars, scrapeVars, callVars,
                   keywordVars, handlerVars>>

\* one execution of the body of "while (css entries < MIN_CSS_COLORS)"
MinCssIteration ==
    /\ pc = "loop"
    /\ CssCount(cssStage) < MIN_CSS_COLORS
    /\ LET cssCount == Len(CssOnEntry(builder, extractedColors))
           variation == adjustBrightness(
                            cssStage[1].hex,
                            VariationAmount(builder, cssStage, cssCount))
       IN  IF ~SomeHex(cssStage, variation)
           THEN /\ cssStage' = Append(cssStage,
                                      ColorPalette(variation, "css",
                                                   "css_variation"))
                /\ pc' = "loop"
           ELSE /\ cssStage' = cssStage
                /\ pc' = "after"
    /\ iterations' = iterations + 1
    /\ UNCHANGED <<extractedColors, parsedColors, builder, colorPalette>>
    /\ UNCHANGED <<imgVars, harvestVars, colorVars, scrapeVars, callVars,
                   keywordVars, handlerVars>>

\* the loop condition is false
MinCssExit ==
    /\ pc = "loop"
    /\ CssCount(cssStage) >= MIN_CSS_COLORS
    /\ pc' = "after"
    /\ UNCHANGED paletteVars
    /\ UNCHANGED <<imgVars, harvestVars, colorVars, scrapeVars, callVars,
                   keywordVars, handlerVars>>

NextMinCss ==
    \/ EnterBuilder
    \/ MinCssIteration
    \/ MinCssExit

SpecMinCss == InitMinCss /\ [][NextMinCss]_vars

(***************************************************************************)
(* C21: in each builder the brightness-variation loop terminates: every    *)
(* execution of its body adds one 'css' entry or leaves the loop, and the  *)
(* body runs at most twice, also for an unparseable first CSS colour and   *)
(* for channels saturated at 255.                                          *)
(***************************************************************************)
C21_LoopTerminates ==
    /\ [](iterations <= 2)
    /\ [][pc = "loop" =>
             \/ pc' = "after"
             \/ /\ CssCount(cssStage') = CssCount(cssStage) + 1
                /\ iterations' = iterations + 1]_vars

\* two executions of the body, the second one left on a collision
C21_Witness ==
    /\ pc = "after"
    /\ iterations = 2
    /\ CssCount(cssStage) < MIN_CSS_COLORS

\* the unparseable first colour leaves the loop on the first execution
C21_WitnessUnparseable ==
    /\ pc = "after"
    /\ iterations = 1
    /\ cssStage # <<>>
    /\ ~hexToRgbInternal(cssStage[1].hex).ok
(***************************************************************************)
(* C22: extractColors returns one list without duplicate hex values, in    *)
(* the order in which the six sources (inline, structural, stylesheet,     *)
(* link, theme-color, SVG) first produce each accepted colour; a colour    *)
(* found by several sources keeps the role_hint of the earliest of them.   *)
(***************************************************************************)
MinOf(S) == CHOOSE x \in S : \A y \in S : x <= y

\* the sources in the order the six stages read them
ReadOrder(d) ==
    StageSources(d, 1, 1) \o StageSources(d, 2, 1) \o StageSources(d, 3, 1)
      \o StageSources(d, 4, 1) \o StageSources(d, 5, 1)
      \o StageSources(d, 6, 1)

\* the colour the k-th source read stands for, Null if it yields none
ColourRead(d, k) ==
    LET token == colorToken(ReadOrder(d)[k])
        hex   == IF token = Null THEN Null ELSE normalizeColor(token)
    IN  IF hex = Null THEN Null
        ELSE IF isValidColor(toUpperCase(hex)) THEN toUpperCase(hex)
        ELSE Null

\* the first position in reading order that yields this colour
FirstRead(d, hex) ==
    MinOf({k \in DOMAIN ReadOrder(d) : ColourRead(d, k) = hex})

C22_DedupFirstOccurrence ==
    pc = "done" =>
        /\ \A i, j \in DOMAIN basePalette :
              i < j =>
                /\ basePalette[i].hex # basePalette[j].hex
                /\ FirstRead(styleColors, basePalette[i].hex)
                     < FirstRead(styleColors, basePalette[j].hex)
        /\ \A i \in DOMAIN basePalette :
              /\ \E k \in DOMAIN ReadOrder(styleColors) :
                    ColourRead(styleColors, k) = basePalette[i].hex
              /\ basePalette[i].role_hint =
                   ReadOrder(styleColors)[
                       FirstRead(styleColors, basePalette[i].hex)].role
        /\ \A k \in DOMAIN ReadOrder(styleColors) :
              ColourRead(styleColors, k) # Null =>
                  SomeHex(basePalette, ColourRead(styleColors, k))

\* the SVG fill comes first in the document, the inline style is read first
C22_Witness ==
    /\ pc = "done"
    /\ Len(styleColors) >= 2
    /\ styleColors[1] = ColorSource(hexBlue, "svg")
    /\ styleColors[2] = ColorSource(hexBlueLower, "inline")
    /\ Len(basePalette) = 1
    /\ basePalette[1].role_hint = "inline"
(***************************************************************************)
(* C23: the score of an entry of the general pass is                       *)
(*   min(1.0, 0.5 + 0.3*[parent class hero|banner|main|feature]            *)
(*                + 0.2*[width > 400 or height > 400]                      *)
(*                + 0.1*[alt length > 5])                                  *)
(* summed as doubles in this order, and every score of a result lies in    *)
(* 0.5 .. 1.0.                                                             *)
(***************************************************************************)
\* the double sum x + y in thousandths; of the sums met here only 0.7 + 0.1
\* is inexact: it is 0.7999999999999999, written 799
DoubleSum(x, y) == IF x = 700 /\ y = 100 THEN 799 ELSE x + y

Indicator(b) == IF b THEN 1 ELSE 0

ScoreFormula(e) ==
    Min(1000,
        DoubleSum(
          DoubleSum(
            DoubleSum(500,
                      300 * Indicator(e.parentClass
                                        \in {"hero", "banner", "main",
                                             "feature"})),
            200 * Indicator(e.width > 400 \/ e.height > 400)),
          100 * Indicator(StrLen(e.alt) > 5)))

C23_ScoreFormula ==
    pc = "done" =>
        /\ \A i \in DOMAIN images :
              /\ images[i].score >= 500
              /\ images[i].score <= 1000
        /\ \A i \in DOMAIN images :
              images[i].id[1] = "auto" /\ images[i].alt # "OG Image" =>
                  \E k \in DOMAIN doc :
                      /\ MadeFrom(images[i], doc[k])
                      /\ images[i].score = ScoreFormula(doc[k])

\* one entry whose three bonuses are clamped to 1.0 and one whose size and
\* alt bonuses sum to 0.7999999999999999
C23_Witness ==
    /\ pc = "done"
    /\ \E i, j \in DOMAIN images :
          /\ \E k \in DOMAIN doc :
                /\ MadeFrom(images[i], doc[k])
                /\ doc[k].parentClass = "hero"
                /\ doc[k].width > 400
                /\ StrLen(doc[k].alt) > 5
                /\ images[i].score = 1000
          /\ images[j].id[1] = "auto"
          /\ images[j].score = 799
(***************************************************************************)
(* C24: extractLogos looks at no more than the first 10 elements that      *)
(* match the logo selectors and returns at most 3 logos, each with score   *)
(* 1.0 and isLogo = true.                                                  *)
(***************************************************************************)
\* the number of selector matches among the first k elements of the page
MatchesUpTo(k) ==
    Cardinality({m \in 1..k : matchesLogoSelector(doc[m])})

C24_LogoPrePassLimits ==
    pc = "done" =>
        /\ Len(logoResult) <= LOGO_LIMIT
        /\ \A i \in DOMAIN logoResult :
              /\ logoResult[i].score = 1000
              /\ logoResult[i].isLogo
              /\ \E k \in DOMAIN doc :
                    /\ matchesLogoSelector(doc[k])
                    /\ MatchesUpTo(k) <= LOGO_SCAN
                    /\ logoResult[i].url =
                         makeAbsoluteUrl(
                             OrElse(doc[k].src,
                                    OrElse(doc[k].dataSrc, doc[k].href)),
                             baseUrl)

\* nine links, then logo files: the tenth match is returned, the eleventh
\* and later ones are not looked at
C24_Witness ==
    /\ pc = "done"
    /\ Len(doc) > LOGO_SCAN
    /\ MatchesUpTo(Len(doc)) > LOGO_SCAN + 1
    /\ Len(logoResult) = 1
(***************************************************************************)
(* C25: complementTo16Colors returns the harvested entries unchanged and   *)
(* in order as a prefix, then variations made from the first min(4, n)     *)
(* harvested colours only, then default colours in the order of the        *)
(* default list; the list it was given is left as it was.                  *)
(***************************************************************************)
\* variation v of the base colour, its ties rounded down at the channels
\* in lower
OneVariation(baseHex, v, lower) ==
    LET baseRgb == hexToRgb(baseHex)
    IN  IF ~baseRgb.ok THEN {}
        ELSE {VariationLoop(rgbToHsl(baseRgb.r, baseRgb.g, baseRgb.b),
                            v, v + 1, {<<v, c>> : c \in lower})[1]}

\* the hexes that variations of the first min(4, n) harvested colours have
BaseVariations ==
    LET nb     == Min(Len(harvested), 4)
        needed == TARGET_COLORS - Len(harvested)
        count  == (needed + nb - 1) \div nb
    IN  UNION { UNION { OneVariation(harvested[t[1]].hex, t[2], lower) :
                        lower \in SUBSET VariationTies(harvested[t[1]].hex,
                                                       t[2]) } :
                t \in (1..nb) \X (0..(count - 1)) }

IsVariationEntry(c) == c.source = "fill" /\ c.role_hint = "variation"

DefaultIndex(c) ==
    CHOOSE k \in DOMAIN getDefaultPalette : getDefaultPalette[k] = c

C25_Frame ==
    pc = "done" =>
        LET n       == Min(Len(harvested), TARGET_COLORS)
            allowed == IF n = 0 \/ n = TARGET_COLORS THEN {}
                       ELSE BaseVariations
        IN  /\ Len(palette16) >= n
            /\ SubSeq(palette16, 1, n) = SubSeq(harvested, 1, n)
            /\ \A i \in (n + 1)..Len(palette16) :
                  \/ /\ IsVariationEntry(palette16[i])
                     /\ palette16[i].hex \in allowed
                  \/ palette16[i] \in Range(getDefaultPalette)
            /\ \A i, j \in (n + 1)..Len(palette16) :
                  i < j /\ ~IsVariationEntry(palette16[i]) =>
                      /\ ~IsVariationEntry(palette16[j])
                      /\ DefaultIndex(palette16[i])
                           < DefaultIndex(palette16[j])

C25_FrameInputKept ==
    /\ []C25_Frame
    /\ [][harvested' = harvested]_vars

\* six harvested colours: ten variations, all of them made from the first
\* four
C25_Witness ==
    /\ pc = "done"
    /\ Len(harvested) = 6
    /\ Cardinality({i \in DOMAIN palette16 :
                      IsVariationEntry(palette16[i])}) = 10
(***************************************************************************)
(* WebScraper.extractKeywordsFast(content).  The content is a sequence of  *)
(* characters; the inputs use ASCII letters, digits, '_' and separators,   *)
(* so the kana and kanji ranges of the word pattern are never met.         *)
(***************************************************************************)
TEXT_LIMIT == 2000

MIN_WORD == 2

MAX_WORD == 20

KEYWORD_LIMIT == 15

LowerChar(c) ==
    IF \E k \in 1..26 : UpperLetters[k] = c
    THEN LowerLetters[CHOOSE k \in 1..26 : UpperLetters[k] = c]
    ELSE c

\* String.prototype.toLowerCase on a sequence of characters
toLowerCaseText(str) == [i \in DOMAIN str |-> LowerChar(str[i])]

\* \w of the word pattern
IsWordChar(c) ==
    \/ \E k \in 1..26 : LowerLetters[k] = c \/ UpperLetters[k] = c
    \/ IsDecDigit(c)
    \/ c = "_"

\* text.match(/[...\w]{2,}/g): the maximal runs of two or more word
\* characters; cur is the run that ends before position i
RECURSIVE matchWords(_, _, _)
matchWords(text, i, cur) ==
    LET found == IF Len(cur) >= MIN_WORD THEN <<cur>> ELSE <<>>
    IN  IF i > Len(text) THEN found
        ELSE IF IsWordChar(text[i])
        THEN matchWords(text, i + 1, Append(cur, text[i]))
        ELSE found \o matchWords(text, i + 1, <<>>)

\* frequency.set(word, (frequency.get(word) || 0) + 1); the Map keeps the
\* position of a key that is set again
frequencySet(frequency, word) ==
    IF \E k \in DOMAIN frequency : frequency[k][1] = word
    THEN [k \in DOMAIN frequency |->
            IF frequency[k][1] = word
            THEN <<word, frequency[k][2] + 1>> ELSE frequency[k]]
    ELSE Append(frequency, <<word, 1>>)

\* for (const word of words)
RECURSIVE countWords(_, _, _)
countWords(frequency, words, i) ==
    IF i > Len(words) THEN frequency
    ELSE countWords(
            IF Len(words[i]) >= MIN_WORD /\ Len(words[i]) <= MAX_WORD
            THEN frequencySet(frequency, words[i]) ELSE frequency,
            words, i + 1)

\* insert x behind every entry whose count is not smaller (stable)
RECURSIVE insertByFrequency(_, _)
insertByFrequency(s, x) ==
    IF s = <<>> THEN <<x>>
    ELSE IF s[Len(s)][2] - x[2] < 0
         THEN Append(insertByFrequency(SubSeq(s, 1, Len(s) - 1), x),
                     s[Len(s)])
         ELSE Append(s, x)

RECURSIVE sortPrefix(_, _)
sortPrefix(entries, n) ==
    IF n = 0 THEN <<>>
    ELSE insertByFrequency(sortPrefix(entries, n - 1), entries[n])

\* entries that are left in the order of the Map
sortByFrequencyNone(entries) == entries

\* .sort((a, b) => b[1] - a[1])
sortByFrequency(entries) == sortPrefix(entries, Len(entries))

extractKeywordsFast(str) ==
    LET text   == Slice(toLowerCaseText(str), TEXT_LIMIT)
        words  == matchWords(text, 1, <<>>)
        sorted == sortByFrequency(countWords(<<>>, words, 1))
        top    == Slice(sorted, KEYWORD_LIMIT)
    IN  [k \in DOMAIN top |-> top[k][1]]

(***************************************************************************)
(* Inputs of extractKeywordsFast.                                          *)
(***************************************************************************)
MaxWords == 3

MaxDistinct == 17

KeywordWords ==
    { <<"a", "i">>,
      <<"A", "I">>,
      <<"a">>,
      <<"e", "-", "m", "a", "i", "l">>,
      <<"s", "e", "o", "_", "1">>,
      [i \in 1..MAX_WORD |-> "y"],
      [i \in 1..(MAX_WORD + 1) |-> "x"] }

\* the words separated by one blank
RECURSIVE JoinWords(_)
JoinWords(ws) ==
    IF ws = <<>> THEN <<>>
    ELSE IF Len(ws) = 1 THEN ws[1]
    ELSE ws[1] \o <<" ">> \o JoinWords(Tail(ws))

KWord(i) == <<"k", LowerLetters[i]>>

\* n different words, then the last two again, the last one twice
ManyWords(n) ==
    [i \in 1..n |-> KWord(i)] \o <<KWord(n - 1), KWord(n), KWord(n)>>

KeywordContents ==
    {JoinWords(ws) : ws \in SeqsUpTo(KeywordWords, MaxWords)}
      \cup {JoinWords(ManyWords(n)) : n \in (MaxDistinct - 3)..MaxDistinct}

InitKeywords ==
    /\ pc = "start"
    /\ content \in KeywordContents
    /\ keywords = <<>>
    /\ NoImages
    /\ NoPalette
    /\ NoHarvest
    /\ NoColors
    /\ NoScrape
    /\ NoCalls
    /\ NoHandler

\* WebScraper.extractKeywordsFast(content)
ExtractKeywordsFast ==
    /\ pc = "start"
    /\ keywords' = extractKeywordsFast(content)
    /\ pc' = "done"
    /\ UNCHANGED content
    /\ UNCHANGED <<imgVars, paletteVars, harvestVars, colorVars, scrapeVars,
                   callVars, handlerVars>>

NextKeywords == ExtractKeywordsFast

SpecKeywords == InitKeywords /\ [][NextKeywords]_vars

(***************************************************************************)
(* C26: extractKeywordsFast returns at most 15 tokens, pairwise distinct,  *)
(* each 2 to 20 characters long, in order of non-increasing frequency,     *)
(* tokens of equal frequency in the order of their first occurrence.       *)
(***************************************************************************)
\* the token w stands at position p of the lower-cased text as a whole word
WordAt(text, w, p) ==
    /\ p + Len(w) - 1 <= Len(text)
    /\ SubSeq(text, p, p + Len(w) - 1) = w
    /\ p = 1 \/ ~IsWordChar(text[p - 1])
    /\ p + Len(w) > Len(text) \/ ~IsWordChar(text[p + Len(w)])

\* the places of w in the text the function counts in
Occurrences(w) ==
    LET text == Slice(toLowerCaseText(content), TEXT_LIMIT)
    IN  {p \in DOMAIN text : WordAt(text, w, p)}

Frequency(w) == Cardinality(Occurrences(w))

C26_TopKeywords ==
    pc = "done" =>
        /\ Len(keywords) <= KEYWORD_LIMIT
        /\ \A i \in DOMAIN keywords :
              /\ Len(keywords[i]) >= MIN_WORD
              /\ Len(keywords[i]) <= MAX_WORD
              /\ Frequency(keywords[i]) >= 1
        /\ \A i, j \in DOMAIN keywords :
              i < j =>
                /\ keywords[i] # keywords[j]
                /\ Frequency(keywords[i]) >= Frequency(keywords[j])
                /\ Frequency(keywords[i]) = Frequency(keywords[j]) =>
                     MinOf(Occurrences(keywords[i]))
                       < MinOf(Occurrences(keywords[j]))

\* more than 15 different tokens; the two most frequent ones, which come
\* last in the text, lead the 15 returned
C26_Witness ==
    /\ pc = "done"
    /\ content = JoinWords(ManyWords(MaxDistinct))
    /\ Len(keywords) = KEYWORD_LIMIT
    /\ keywords[1] = KWord(MaxDistinct)
    /\ keywords[2] = KWord(MaxDistinct - 1)
    /\ keywords[3] = KWord(1)
(***************************************************************************)
(* The scrape handler for one or several URLs (POST of the scrape route).  *)
(* Each step is one iteration of its loop over urls; the fetch of          *)
(* scrapeUrl either throws or yields a page.  The page texts (mainContent) *)
(* and the timing fields of the response are left out.                     *)
(***************************************************************************)
ID_PREFIX == 20

MaxUrls == 2

urlShopA ==
    <<"h", "t", "t", "p", "s", ":", "/", "/", "s", "h", "o", "p", ".", "e",
      "x", "a", "m", "p", "l", "e", "/", "a">>

urlShopB ==
    <<"h", "t", "t", "p", "s", ":", "/", "/", "s", "h", "o", "p", ".", "e",
      "x", "a", "m", "p", "l", "e", "/", "b">>

urlBlog ==
    <<"h", "t", "t", "p", "s", ":", "/", "/", "b", "l", "o", "g", ".", "e",
      "x", "a", "m", "p", "l", "e", "/">>

HandlerUrls == {urlShopA, urlShopB, urlBlog}

\* the URL as extractImages resolves against it
baseOf(url) ==
    CASE url = urlShopA -> Url("abs", ShopOrigin, <<"a">>)
      [] url = urlShopB -> Url("abs", ShopOrigin, <<"b">>)
      [] OTHER -> Url("abs", "https://blog.example", <<"index.html">>)

\* what cheerio finds in a fetched page
Page(title, description, headlines, mainContent, d, og, sources) ==
    [title |-> title, description |-> description, headlines |-> headlines,
     mainContent |-> mainContent, doc |-> d, og |-> og, sources |-> sources]

Pages ==
    { Page("Shop", "Shoes", <<"Summer sale">>,
           <<"s", "a", "l", "e", " ", "s", "a", "l", "e">>,
           <<Img(relLogo, NoUrl, "Company Logo", "", "header", 200, 0, ""),
             Img(relHero, NoUrl, "", "", "body", 0, 0, "")>>,
           NoUrl, <<ColorSource(hexBlueLower, "inline")>>),
      Page("Blog", "", <<"News">>, <<"n", "e", "w", "s">>,
           <<Img(relHero, NoUrl, "", "", "body", 0, 0, "")>>,
           NoUrl,
           <<ColorSource(hexBlue, "svg"), ColorSource(hexAbc, "theme")>>),
      Page("", "", <<>>, <<>>, <<>>, NoUrl, <<>>) }

\* WebScraper.extractContext: the fields the handler and its callers read
extractContext(page) ==
    [headlines_raw |-> page.headlines,
     keywords_top  |-> Slice(extractKeywordsFast(page.mainContent),
                             KEYWORD_LIMIT)]

\* Number.prototype.toString() for n >= 0
RECURSIVE toString10(_)
toString10(n) ==
    IF n < 10 THEN <<DecDigits[n + 1]>>
    ELSE toString10(n \div 10) \o <<DecDigits[(n % 10) + 1]>>

\* the id of a scraped image as a string: `auto_${n}` or `logo_${n}`
idText(id) ==
    (IF id[1] = "logo" THEN <<"l", "o", "g", "o">>
                       ELSE <<"a", "u", "t", "o">>)
      \o <<"_">> \o toString10(id[2])

\* url.replace(/[^a-zA-Z0-9]/g, '_').slice(0, 20)
idPrefix(url) ==
    Slice([i \in DOMAIN url |->
             IF IsWordChar(url[i]) /\ url[i] # "_" THEN url[i] ELSE "_"],
          ID_PREFIX)

\* images.map(img => ({...img, sourceUrl: url, id: `${prefix}_${img.id}`}))
tagImages(imgs, url) ==
    [k \in DOMAIN imgs |->
        [imgs[k] EXCEPT !.id = idPrefix(url) \o <<"_">> \o idText(@)]
          @@ [sourceUrl |-> url]]

\* urlResults[url] = counts
setResult(results, url, counts) ==
    [u \in DOMAIN results \cup {url} |->
        IF u = url THEN counts ELSE results[u]]

\* deduplicateColors(colors)
RECURSIVE deduplicateColors(_, _, _)
deduplicateColors(unique, colors, i) ==
    IF i > Len(colors) THEN unique
    ELSE deduplicateColors(
            IF ~SomeHex(unique, toUpperCase(colors[i].hex))
            THEN Append(unique,
                        [colors[i] EXCEPT !.hex = toUpperCase(@)])
            ELSE unique,
            colors, i + 1)

InitHandler ==
    /\ pc = "loop"
    /\ urls \in SeqsUpTo(HandlerUrls, MaxUrls)
    /\ urlIndex = 1
    /\ allImages = <<>>
    /\ allCssColors = <<>>
    /\ allAnalysisInputs = <<>>
    /\ primaryContext = <<>>
    /\ urlResults = <<>>
    /\ response = <<>>
    /\ NoImages
    /\ NoPalette
    /\ NoHarvest
    /\ NoColors
    /\ NoScrape
    /\ NoCalls
    /\ NoKeywords

\* a catch block that leaves no trace of the URL
UrlFailsNoRecord(url) ==
    /\ UNCHANGED <<allImages, allCssColors, allAnalysisInputs,
                   primaryContext, urlResults>>

\* the catch block of the loop body: scrapeUrl has thrown
UrlFails(url) ==
    /\ urlResults' = setResult(urlResults, url, [images |-> 0, colors |-> 0])
    /\ UNCHANGED <<allImages, allCssColors, allAnalysisInputs,
                   primaryContext>>

\* the try block of the loop body: scrapeUrl has returned the page
UrlSucceeds(url, page, isFirst) ==
    LET basicContext == extractContext(page)
        taggedImages == tagImages(extractImages(page.doc, page.og,
                                                baseOf(url)),
                                  url)
        extractedCssColors == extractColors(page.sources)
    IN  /\ primaryContext' = IF isFirst THEN <<basicContext>>
                             ELSE primaryContext
        /\ allImages' = allImages \o taggedImages
        /\ allCssColors' = allCssColors \o extractedCssColors
        /\ allAnalysisInputs' =
             Append(allAnalysisInputs,
                    [url |-> url, title |-> page.title,
                     description |-> page.description,
                     headlines |-> basicContext.headlines_raw])
        /\ urlResults' =
             setResult(urlResults, url,
                       [images |-> Len(taggedImages),
                        colors |-> Len(extractedCssColors)])

\* one iteration of "for (let i = 0; i < urls.length; i++)"
ProcessUrl ==
    /\ pc = "loop"
    /\ urlIndex <= Len(urls)
    /\ \/ UrlFails(urls[urlIndex])
       \/ \E page \in Pages :
             UrlSucceeds(urls[urlIndex], page, urlIndex = 1)
    /\ urlIndex' = urlIndex + 1
    /\ UNCHANGED <<pc, urls, response>>
    /\ UNCHANGED <<imgVars, paletteVars, harvestVars, colorVars, scrapeVars,
                   callVars, keywordVars>>

\* the code after the loop; the 400 answer for an empty list of URLs
Respond ==
    /\ pc = "loop"
    /\ urlIndex > Len(urls)
    /\ response' =
         IF urls = <<>>
         THEN [status |-> 400]
         ELSE LET uniqueColors == deduplicateColors(<<>>, allCssColors, 1)
              IN  [status |-> 200,
                   images |-> allImages,
                   cssColors |-> uniqueColors,
                   analysisInput |->
                     [urls |-> urls,
                      primaryUrl |-> urls[1],
                      title |-> IF allAnalysisInputs # <<>>
                                THEN allAnalysisInputs[1].title ELSE "",
                      description |->
                          IF allAnalysisInputs # <<>>
                          THEN allAnalysisInputs[1].description ELSE "",
                      headlines |-> IF primaryContext # <<>>
                                    THEN primaryContext[1].headlines_raw
                                    ELSE <<>>,
                      extractedColors |->
                          [k \in DOMAIN uniqueColors |-> uniqueColors[k].hex],
                      pageCount |-> Len(urls)],
                   basicContext |-> primaryContext,
                   urlResults |-> urlResults]
    /\ pc' = "responded"
    /\ UNCHANGED <<urls, urlIndex, allImages, allCssColors,
                   allAnalysisInputs, primaryContext, urlResults>>
    /\ UNCHANGED <<imgVars, paletteVars, harvestVars, colorVars, scrapeVars,
                   callVars, keywordVars>>

NextHandler ==
    \/ ProcessUrl
    \/ Respond

SpecHandler == InitHandler /\ [][NextHandler]_vars
(***************************************************************************)
(* C27: the ids of the images of a combined response are pairwise          *)
(* distinct across URLs, also for two URLs with the same first 20          *)
(* characters and for a URL that is listed twice.                          *)
(***************************************************************************)
C27_IdsDistinctAcrossUrls ==
    \A i, j \in DOMAIN allImages :
        i # j => allImages[i].id # allImages[j].id

(***************************************************************************)
(* C28: a URL whose scrape fails does not end the request: the step        *)
(* records it in urlResults with 0 images and 0 colours and leaves the     *)
(* images and colours collected so far as they are; the URLs are taken in  *)
(* order, all of them before the response, and the response has an entry   *)
(* in urlResults for every requested URL.                                  *)
(***************************************************************************)
\* a step of the loop that added no analysis input: its scrape failed
FailedUrlStep ==
    /\ urlIndex' = urlIndex + 1
    /\ allAnalysisInputs' = allAnalysisInputs

C28_FailureIsolated ==
    /\ [][FailedUrlStep =>
             /\ urls[urlIndex] \in DOMAIN urlResults'
             /\ urlResults'[urls[urlIndex]] = [images |-> 0, colors |-> 0]
             /\ \A u \in DOMAIN urlResults :
                   u # urls[urlIndex] => urlResults'[u] = urlResults[u]
             /\ allImages' = allImages
             /\ allCssColors' = allCssColors
             /\ pc' = "loop"]_vars
    /\ [][urlIndex' # urlIndex =>
             /\ urlIndex' = urlIndex + 1
             /\ urls[urlIndex] \in DOMAIN urlResults']_vars
    /\ [](pc = "responded" /\ urls # <<>> =>
             /\ urlIndex = Len(urls) + 1
             /\ response.status = 200
             /\ response.images = allImages
             /\ \A k \in DOMAIN urls : urls[k] \in DOMAIN response.urlResults)

\* the first URL was scraped, the second failed, and the response carries
\* the images of the first
C28_Witness ==
    /\ pc = "responded"
    /\ Len(urls) = 2
    /\ urls[1] # urls[2]
    /\ Len(allAnalysisInputs) = 1
    /\ allAnalysisInputs[1].url = urls[1]
    /\ response.images # <<>>
    /\ response.urlResults[urls[2]] = [images |-> 0, colors |-> 0]

(***************************************************************************)
(* C29: in a response, basicContext, analysisInput.headlines, title and    *)
(* description come from the same page, and basicContext is not null when  *)
(* at least one URL was scraped, also when the first URL failed and a      *)
(* later one was scraped.                                                  *)
(***************************************************************************)
C29_ContextOfOnePage ==
    pc = "responded" /\ urls # <<>> /\ allAnalysisInputs # <<>> =>
        /\ response.basicContext # <<>>
        /\ \E page \in Pages :
              /\ response.basicContext[1] = extractContext(page)
              /\ response.analysisInput.headlines = page.headlines
              /\ response.analysisInput.title = page.title
              /\ response.analysisInput.description = page.description
(***************************************************************************)
(* C30: in one scrapeUrl call no HTTP request goes to a blocked host       *)
(* (localhost, 127.0.0.1, or a name starting with 10., 172. or 192.168.),  *)
(* the requests made while following up to 3 redirects from an allowed     *)
(* host included.                                                          *)
(***************************************************************************)
C30_NoRequestToBlockedHost ==
    \A i \in DOMAIN contacted : ~NamedInternal(contacted[i])
====
